---- MODULE Spec2Model ----
(***************************************************************************)
(* Model of the diagnosis / localization pipeline of okuani-adamfo-api.    *)
(*                                                                         *)
(* Request handlers are async functions: the code between two awaits runs  *)
(* atomically, so every action below is one such segment (from the return  *)
(* of one awaited call to the issue of the next one, or to the response).  *)
(* Several requests are in flight at once, one per handler slot.           *)
(*                                                                         *)
(* JavaScript values are tagged records; texts are sequences of non-empty  *)
(* tokens, so that template literals keep their structure and the empty    *)
(* string is the empty sequence.                                           *)
(*                                                                         *)
(* The document store is taken to be reachable: findById and save return,  *)
(* findById rejects exactly when the id cannot be cast to an ObjectId, and *)
(* save rejects exactly when schema validation rejects.  The outbound      *)
(* HTTP calls (search, translation, speech synthesis, transcription) may   *)
(* succeed or fail in every way the handlers distinguish.                  *)
(***************************************************************************)
EXTENDS Integers, Sequences, FiniteSets, TLC

\* ------------------------------------------------------------------ bounds
\* Total number of requests the clients issue in one behaviour.
MaxRequests == 2

\* Largest number of items a search response carries.
MaxItems == 6

\* ------------------------------------------------------- JavaScript values
Undefined == [t |-> "undefined", s |-> <<>>]
Null == [t |-> "null", s |-> <<>>]
Str(tokens) == [t |-> "string", s |-> tokens]

\* JS truthiness of a string-or-nullish value: undefined, null and "" are falsy.
Truthy(v) == v.t = "string" /\ v.s # <<>>

\* `${v}` inside a template literal.
Interp(v) == IF v.t = "string" THEN v.s ELSE <<v.t>>

\* a || b
OrElse(a, b) == IF Truthy(a) THEN a ELSE b


\* ------------------------------------------------- language/voice registry
\* src/okuani-adamfo-api-main/controllers/output.js:9 (same table in
\* src/controllers/output.js:10).
SPEAKER_MAPPING ==
  [tw |-> <<"twi_speaker_4", "twi_speaker_5", "twi_speaker_6",
            "twi_speaker_7", "twi_speaker_8", "twi_speaker_9">>,
   ki |-> <<"kikuyu_speaker_1", "kikuyu_speaker_5">>,
   ee |-> <<"ewe_speaker_3", "ewe_speaker_4">>]

\* SPEAKER_MAPPING is an object literal, so SPEAKER_MAPPING[key] also finds
\* the members it inherits from Object.prototype (functions, hence truthy).
\* One of them stands for all.
InheritedKeys == {"constructor"}

ASR_SUPPORTED_LANGUAGES == {"tw", "gaa", "dag", "yo", "ee", "ki", "ha"}

\* The property key a JS value turns into.
LangKey(v) == IF v.t # "string" THEN v.t ELSE IF v.s = <<>> THEN "" ELSE v.s[1]

\* SPEAKER_MAPPING[language]: an array of voices, an inherited member, or
\* undefined.
SpeakerLookup(language) ==
  LET key == LangKey(language) IN
  IF key \in DOMAIN SPEAKER_MAPPING
    THEN [kind |-> "array", voices |-> SPEAKER_MAPPING[key]]
    ELSE IF key \in InheritedKeys
      THEN [kind |-> "inherited", voices |-> <<>>]
      ELSE [kind |-> "undefined", voices |-> <<>>]

\* The test `SPEAKER_MAPPING[language]` used as a condition.
HasSpeakerEntry(language) == SpeakerLookup(language).kind # "undefined"

\* Mutant of getDefaultSpeaker: the last voice of the list.
getDefaultSpeaker_Last(language) ==
  LET speakers == SpeakerLookup(language) IN
  IF speakers.kind = "undefined" THEN Null
  ELSE IF speakers.kind = "array"
    THEN Str(<<speakers.voices[Len(speakers.voices)]>>)
  ELSE Undefined

\* getDefaultSpeaker: speakers ? speakers[0] : null.  Index 0 of an inherited
\* function is undefined.
getDefaultSpeaker(language) ==
  LET speakers == SpeakerLookup(language) IN
  IF speakers.kind = "undefined" THEN Null
  ELSE IF speakers.kind = "array" THEN Str(<<speakers.voices[1]>>)
  ELSE Undefined

\* --------------------------------------------------------- diagnosis texts
\* Mutant of Narrative: the 'both' branch states the image before the voice.
Narrative_ImageFirst(voiceInput, imageResult) ==
  IF Truthy(voiceInput) /\ Truthy(imageResult)
    THEN <<"Visual analysis suggests: ">> \o Interp(imageResult)
           \o <<". Symptoms reported: ">> \o Interp(voiceInput) \o <<".">>
  ELSE IF Truthy(voiceInput)
    THEN <<"Symptoms reported: ">> \o Interp(voiceInput)
           \o <<". Awaiting image input", " for complete diagnosis.">>
  ELSE <<"Visual analysis suggests: ">> \o Interp(imageResult)
           \o <<". No additional symptoms reported.">>

\* Mutant of Narrative: the voice-only branch states the symptoms and stops.
Narrative_NoPendingNote(voiceInput, imageResult) ==
  IF Truthy(voiceInput) /\ Truthy(imageResult)
    THEN <<"Symptoms reported: ">> \o Interp(voiceInput)
           \o <<". Visual analysis suggests: ">> \o Interp(imageResult) \o <<".">>
  ELSE IF Truthy(voiceInput)
    THEN <<"Symptoms reported: ">> \o Interp(voiceInput) \o <<".">>
  ELSE <<"Visual analysis suggests: ">> \o Interp(imageResult)
           \o <<". No additional symptoms reported.">>

\* The three-way merge of createDiagnosis: the narrative.
\* The text of the voice-only branch is two tokens, so that what it starts
\* with can be told from how it ends.
Narrative(voiceInput, imageResult) ==
  IF Truthy(voiceInput) /\ Truthy(imageResult)
    THEN <<"Symptoms reported: ">> \o Interp(voiceInput)
           \o <<". Visual analysis suggests: ">> \o Interp(imageResult) \o <<".">>
  ELSE IF Truthy(voiceInput)
    THEN <<"Symptoms reported: ">> \o Interp(voiceInput)
           \o <<". Awaiting image input", " for complete diagnosis.">>
  ELSE <<"Visual analysis suggests: ">> \o Interp(imageResult)
           \o <<". No additional symptoms reported.">>

\* The query handed to searchTreatmentInfo.
SearchQuery(voiceInput, imageResult) ==
  IF Truthy(voiceInput) /\ Truthy(imageResult)
    THEN Str(Interp(voiceInput) \o <<" ">> \o Interp(imageResult))
  ELSE IF Truthy(voiceInput) THEN voiceInput
  ELSE imageResult

\* Mutant of searchTreatmentInfoThrows: no try/catch around the call.
searchTreatmentInfoThrows_Uncaught(outcome) == outcome.kind # "ok"

\* Whether searchTreatmentInfo rejects: never, its whole body (building the
\* query, the call, reading and mapping the items) is inside its try, and
\* the catch returns.
searchTreatmentInfoThrows(outcome) == FALSE

\* What searchTreatmentInfo returns for an outcome of the search call: the
\* mapped items of a response that has some, the empty list otherwise (no
\* items, an item-less body, a thrown error).
searchTreatmentInfo(outcome) ==
  IF outcome.kind = "ok" /\ outcome.hasItems /\ Len(outcome.items) > 0
    THEN [i \in 1..Len(outcome.items) |->
            [title |-> outcome.items[i].title,
             snippet |-> outcome.items[i].snippet,
             link |-> outcome.items[i].link]]
  ELSE <<>>

GenericTemplate(diseaseInfo) ==
  <<"Based on the identified condition: ">> \o Interp(diseaseInfo)
    \o <<", here are general recommendations:\n    \n",
         "1. **Immediate Action**: Remove affected plant parts and dispose of them properly\n",
         "2. **Prevention**: Ensure proper spacing between plants for air circulation\n",
         "3. **Treatment**: Consider organic fungicides or pesticides appropriate for the condition\n",
         "4. **Monitoring**: Check plants regularly for early detection\n",
         "5. **Soil Management**: Ensure proper drainage and soil health\n",
         "\nPlease consult with local agricultural extension officers for specific treatment options available in your area.">>

\* The closing block; the source's bullet character is U+2022.
ClosingBlock ==
  <<"\n**Additional Recommendations:**\n",
    "(U+2022) Consult local agricultural extension services\n",
    "(U+2022) Consider integrated pest management approaches\n",
    "(U+2022) Monitor weather conditions that may worsen the condition\n",
    "(U+2022) Keep records of treatments applied for future reference">>

\* Mutant of ItemLines: the items are numbered from 0.
ItemLines_ZeroBased(result, index) ==
  <<"**", ToString(index), ". ", result.title, "**\n",
    result.snippet, "\n", "Source: ", result.link, "\n\n">>

\* One pass of the forEach of generateTreatmentRecommendations.
ItemLines(result, index) ==
  <<"**", ToString(index + 1), ". ", result.title, "**\n",
    result.snippet, "\n", "Source: ", result.link, "\n\n">>

RECURSIVE ItemizedFrom(_, _)
ItemizedFrom(searchResults, i) ==
  IF i > Len(searchResults) THEN <<>>
  ELSE ItemLines(searchResults[i], i - 1) \o ItemizedFrom(searchResults, i + 1)

\* Mutant of generateTreatmentRecommendations: the branch for an empty
\* result list is missing.
generateTreatmentRecommendations_NoFallback(searchResults, diseaseInfo) ==
  <<"**Treatment Recommendations for ">> \o Interp(diseaseInfo) \o <<":**\n\n">>
    \o ItemizedFrom(searchResults, 1) \o ClosingBlock

generateTreatmentRecommendations(searchResults, diseaseInfo) ==
  IF Len(searchResults) = 0 THEN GenericTemplate(diseaseInfo)
  ELSE <<"**Treatment Recommendations for ">> \o Interp(diseaseInfo) \o <<":**\n\n">>
         \o ItemizedFrom(searchResults, 1) \o ClosingBlock

\* `${combinedResult}\n\n${treatmentRecommendations}`
ComprehensiveDiagnosis(combinedResult, treatmentRecommendations) ==
  combinedResult \o <<"\n\n">> \o treatmentRecommendations


\* ---------------------------------------------------------------- base64
\* The base64 alphabet of Buffer.toString('base64').
B64Chars ==
  <<
    "A", "B", "C", "D", "E", "F", "G", "H", "I", "J", "K", "L", "M", "N", "O", "P",
    "Q", "R", "S", "T", "U", "V", "W", "X", "Y", "Z", "a", "b", "c", "d", "e", "f",
    "g", "h", "i", "j", "k", "l", "m", "n", "o", "p", "q", "r", "s", "t", "u", "v",
    "w", "x", "y", "z", "0", "1", "2", "3", "4", "5", "6", "7", "8", "9", "+", "/"
  >>

\* Buffer.from(bytes).toString('base64'): three bytes give four characters,
\* a last group of one or two bytes is padded with "=".
RECURSIVE Base64(_)
Base64(bytes) ==
  IF Len(bytes) = 0 THEN <<>>
  ELSE IF Len(bytes) = 1
    THEN <<B64Chars[(bytes[1] \div 4) + 1],
           B64Chars[((bytes[1] % 4) * 16) + 1], "=", "=">>
  ELSE IF Len(bytes) = 2
    THEN <<B64Chars[(bytes[1] \div 4) + 1],
           B64Chars[((bytes[1] % 4) * 16) + (bytes[2] \div 16) + 1],
           B64Chars[((bytes[2] % 16) * 4) + 1], "=">>
  ELSE <<B64Chars[(bytes[1] \div 4) + 1],
         B64Chars[((bytes[1] % 4) * 16) + (bytes[2] \div 16) + 1],
         B64Chars[((bytes[2] % 16) * 4) + (bytes[3] \div 64) + 1],
         B64Chars[(bytes[3] % 64) + 1]>>
       \o Base64(SubSeq(bytes, 4, Len(bytes)))

\* `data:audio/wav;base64,${audioBase64}`
AudioDataURL(bytes) == Str(<<"data:audio/wav;base64,">> \o Base64(bytes))

\* -------------------------------------------------------- diagnosis store
\* The ObjectId mongoose gives the n-th document it constructs.
Oid(n) == Str(<<"oid", ToString(n)>>)

NoDoc ==
  [id |-> Undefined, voiceInput |-> Undefined, imageResult |-> Undefined,
   combinedResult |-> Undefined, localizedText |-> Undefined,
   audioURL |-> Undefined, language |-> Undefined, createdAt |-> 0]

\* A schema default of null replaces an absent (undefined) value only.
DefaultNull(v) == IF v.t = "undefined" THEN Null ELSE v

\* new Diagnosis({...}) under diagnosisSchema: the paths of the schema with
\* their defaults; fields the schema does not declare are dropped.
NewDiagnosis(n, voiceInput, imageResult, combinedResult, language) ==
  [id |-> Oid(n),
   voiceInput |-> DefaultNull(voiceInput),
   imageResult |-> DefaultNull(imageResult),
   combinedResult |-> combinedResult,
   localizedText |-> Null,
   audioURL |-> Null,
   language |-> language,
   createdAt |-> n]

\* Mutant of Validates: combinedResult is not required.
Validates_LanguageOnly(doc) == Truthy(doc.language)

\* `required: true` on a String path rejects undefined, null and "".
Validates(doc) == Truthy(doc.combinedResult) /\ Truthy(doc.language)

\* Whether mongoose can cast `id` to an ObjectId (a 24-digit hex string, here
\* the strings Oid makes); findById rejects with a CastError otherwise.
IsObjectId(id) == id.t = "string" /\ Len(id.s) = 2 /\ id.s[1] = "oid"

\* Diagnosis.findById on the collection: the document or NoDoc (null).
FindById(collection, id) ==
  IF \E i \in 1..Len(collection) : collection[i].id = id
    THEN collection[CHOOSE i \in 1..Len(collection) : collection[i].id = id]
    ELSE NoDoc

\* The paths of the schema a handler can assign.
Paths ==
  {"voiceInput", "imageResult", "combinedResult", "localizedText",
   "audioURL", "language"}

\* The paths mongoose marks modified on a loaded document: those whose
\* value an assignment has changed.
ModifiedPaths(loaded, doc) == {p \in Paths : doc[p] # loaded[p]}

\* Mutant of SaveModified: a path that already holds a value is kept.
SaveModified_KeepsExisting(collection, doc, modified) ==
  [i \in 1..Len(collection) |->
     IF collection[i].id # doc.id THEN collection[i]
     ELSE [f \in DOMAIN collection[i] |->
             IF f \in modified /\ collection[i][f] = Null
               THEN doc[f] ELSE collection[i][f]]]

\* Mutant of SaveModified: the write is dropped when the stored record has
\* been localized by somebody already.
SaveModified_FirstWriterWins(collection, doc, modified) ==
  [i \in 1..Len(collection) |->
     IF collection[i].id # doc.id \/ collection[i].audioURL # Null
       THEN collection[i]
       ELSE [f \in DOMAIN collection[i] |->
               IF f \in modified THEN doc[f] ELSE collection[i][f]]]

\* save() of a loaded document: sets its modified paths on the stored
\* document of the same id and nothing else.
SaveModified(collection, doc, modified) ==
  [i \in 1..Len(collection) |->
     IF collection[i].id # doc.id THEN collection[i]
     ELSE [f \in DOMAIN collection[i] |->
             IF f \in modified THEN doc[f] ELSE collection[i][f]]]

\* Mutant of Localized: the localized text also replaces combinedResult.
Localized_OverwritesCombined(diagnosis, localizedText, audioURL) ==
  [diagnosis EXCEPT !.combinedResult = localizedText,
                    !.localizedText = localizedText, !.audioURL = audioURL]

\* diagnosis.localizedText = localizedText; diagnosis.audioURL = audioURL
Localized(diagnosis, localizedText, audioURL) ==
  [diagnosis EXCEPT !.localizedText = localizedText, !.audioURL = audioURL]

\* diagnosis.audioURL = audioURL
WithAudio(diagnosis, audioURL) == [diagnosis EXCEPT !.audioURL = audioURL]

\* ------------------------------------------------------------------ state
VARIABLES
  diagnoses,        \* the Diagnosis collection, in insertion order
  createdBy,        \* per stored document, the handler that inserted it
  created,          \* number of documents constructed so far
  started,          \* number of requests received so far
  translationURL,   \* whether GHANA_TRANSLATION_URL is configured
  users,            \* the User collection, in insertion order
  userIndexes,      \* the paths of the User schema that carry a unique index
  req               \* per handler slot, the request it is serving

\* The User collection and its indexes, which no handler but registerUser
\* touches.
userStore == <<users, userIndexes>>

vars == <<diagnoses, createdBy, created, started, translationURL, userStore, req>>

\* Requests that can be in flight at the same time.
Slots == {"h1", "h2"}

\* ----------------------------------------------------------------- inputs
\* Request fields and call outcomes the clients and the upstream services
\* can produce.  Spec runs all handlers on a small choice of each; the
\* specifications of one handler (SpecCompose) widen the choice for it.
VoiceInputs == {Undefined, Str(<<"leaves turning yellow">>)}
ImageResults == {Undefined}
CreateLanguages == {Undefined, Str(<<"tw">>), Str(<<"fr">>), Str(<<"constructor">>)}
AudioLanguages == {Undefined, Str(<<"tw">>), Str(<<"gaa">>), Str(<<"fr">>)}
SpeakerIds == {Undefined, Str(<<"twi_speaker_5">>)}
DiagnosisIds == {Undefined} \cup {Oid(n) : n \in 1..MaxRequests}

ComposeVoiceInputs == {Undefined, Str(<<>>), Str(<<"leaves turning yellow">>)}
ComposeImageResults == {Undefined, Str(<<"maize rust">>)}
ComposeLanguages == {Undefined, Str(<<"tw">>)}

SearchItems ==
  {[title |-> "Maize rust control", snippet |-> "Apply fungicide early",
    link |-> "https://example.org/rust"],
   [title |-> "Yellow leaves in maize", snippet |-> "Nitrogen deficiency",
    link |-> "https://example.org/yellow"]}

SearchError == [kind |-> "error", hasItems |-> FALSE, items |-> <<>>]

SearchOk(items) == [kind |-> "ok", hasItems |-> TRUE, items |-> items]

\* No response yet.
NoSearchResponse == [kind |-> "none", hasItems |-> FALSE, items |-> <<>>]

\* The results a search can return, in the service's order of relevance.
SearchPool ==
  <<[title |-> "Maize rust control", snippet |-> "Apply fungicide early",
     link |-> "https://example.org/rust"],
    [title |-> "Yellow leaves in maize", snippet |-> "Nitrogen deficiency",
     link |-> "https://example.org/yellow"],
    [title |-> "Fall armyworm", snippet |-> "Scout fields weekly",
     link |-> "https://example.org/armyworm"],
    [title |-> "Maize streak virus", snippet |-> "Plant resistant varieties",
     link |-> "https://example.org/streak"],
    [title |-> "Leaf blight", snippet |-> "Rotate crops",
     link |-> "https://example.org/blight"],
    [title |-> "Soil fertility in Ghana", snippet |-> "Test the soil",
     link |-> "https://example.org/soil"],
    [title |-> "Extension services", snippet |-> "Contact the district office",
     link |-> "https://example.org/extension"],
    [title |-> "Striga control", snippet |-> "Hand pull before flowering",
     link |-> "https://example.org/striga"]>>

SearchHits(n) == IF n < Len(SearchPool) THEN n ELSE Len(SearchPool)

\* The first n results of the pool, as they come and from the last to the
\* first.
Ascending(n) == [i \in 1..SearchHits(n) |-> SearchPool[i]]

Descending(n) == [i \in 1..SearchHits(n) |-> SearchPool[SearchHits(n) + 1 - i]]

\* Every way the search call can end: no response (network error), a non-2xx
\* response, a 2xx response whose body is not the expected object (text, or
\* null), a body without items, with an empty items array, with 1..MaxItems
\* items in either order.
WideSearchOutcomes ==
  {SearchError,
   [kind |-> "rejected", hasItems |-> FALSE, items |-> <<>>],
   [kind |-> "malformed", hasItems |-> FALSE, items |-> <<>>],
   [kind |-> "ok", hasItems |-> FALSE, items |-> <<>>],
   SearchOk(<<>>)}
  \cup {SearchOk(Ascending(n)) : n \in 1..MaxItems}
  \cup {SearchOk(Descending(n)) : n \in 2..MaxItems}

SearchVoiceInputs == {Str(<<"leaves turning yellow">>)}
SearchImageResults == {Undefined}
SearchLanguages == {Str(<<"tw">>)}

\* Outcomes of the search call: a thrown error (network, non-2xx), a body
\* without items, a body with an items array (empty, or two results in
\* either order).
ComposeSearchOutcomes ==
  {SearchError, [kind |-> "ok", hasItems |-> FALSE, items |-> <<>>], SearchOk(<<>>)}
  \cup {SearchOk(pair) : pair \in {p \in SearchItems \X SearchItems : p[1] # p[2]}}

SearchOutcomes ==
  {SearchError}
  \cup {SearchOk(<<a>>) : a \in {b \in SearchItems : b.title = "Maize rust control"}}

\* Outcomes of the translation call: an error, or a body whose `out` is a
\* text or is missing.
TranslationOutcomes ==
  {[kind |-> "error", out |-> Undefined],
   [kind |-> "ok", out |-> Undefined],
   [kind |-> "ok", out |-> Str(<<"Nhwehwemu kyere se afifide no yare">>)]}

AudioClips == {<<82, 73, 70>>, <<255>>}

\* Outcomes of an axios call that returns bytes or text: success, an error
\* carrying the upstream response, an error without one.
TtsOutcomes ==
  {[kind |-> "ok", status |-> 200, data |-> b] : b \in AudioClips}
  \cup {[kind |-> "response", status |-> 401, data |-> <<>>],
        [kind |-> "noresponse", status |-> 0, data |-> <<>>]}

AsrOutcomes ==
  {[kind |-> "ok", status |-> 200, data |-> t] :
     t \in {Str(<<>>), Str(<<"leaves turning yellow">>)}}
  \cup {[kind |-> "noresponse", status |-> 0, data |-> Undefined]}

\* ------------------------------------------------- upload: upstream bodies
\* A response body: a text, or an object with the fields the handlers read.
TextBody(v) ==
  [type |-> "string", value |-> v, transcription |-> Undefined,
   transcribedText |-> Undefined, text |-> Undefined, result |-> Undefined]

ObjectBody(transcription, transcribedText, text) ==
  [type |-> "object", value |-> Undefined, transcription |-> transcription,
   transcribedText |-> transcribedText, text |-> text, result |-> Undefined]

NoBody == TextBody(Undefined)

\* The outcome of an upstream call: a response body, or an error with its
\* code / message class and, when the upstream answered, its status.
Upstream(kind, status, data) == [kind |-> kind, status |-> status, data |-> data]

NoUpstream == Upstream("none", 0, NoBody)

Spoken == Str(<<"leaves turning yellow">>)

\* The bodies of a 2xx answer of the ASR service: a transcript, an empty one,
\* a whitespace one, as a text or in a field of an object.
AsrBodies ==
  {TextBody(Spoken), TextBody(Str(<<>>)), TextBody(Str(<<" ">>)),
   ObjectBody(Spoken, Undefined, Undefined),
   ObjectBody(Str(<<>>), Undefined, Undefined),
   ObjectBody(Undefined, Undefined, Str(<<" ", "\n">>)),
   ObjectBody(Undefined, Str(<<" ", "leaves turning yellow", " ">>), Undefined)}

\* Outcomes of the axios call of handleVoiceUpload: a body, a timeout
\* (ECONNABORTED), an unreachable service (ENOTFOUND, ECONNREFUSED), a non-2xx
\* answer (bad credential, bad request, server error), another error.
VoiceOutcomes ==
  {Upstream("ok", 200, b) : b \in AsrBodies}
  \cup {Upstream("timeout", 0, NoBody), Upstream("unreachable", 0, NoBody),
        Upstream("noresponse", 0, NoBody)}
  \cup {Upstream("response", st, NoBody) : st \in {400, 401, 500}}

\* Outcomes of ghanaNLPClient.transcribeAudio: a response object, or an error
\* whose message names the API key, the network, or neither.
ClientOutcomes ==
  {Upstream("ok", 200, b) : b \in {c \in AsrBodies : c.type = "object"}}
  \cup {Upstream("apikey", 0, NoBody), Upstream("network", 0, NoBody),
        Upstream("noresponse", 0, NoBody)}

\* Outcomes of the call of handleImageUpload: a prediction, a timeout, a
\* non-2xx answer, another error.
ImageOutcomes ==
  {Upstream("ok", 200, ObjectBody(Undefined, Undefined, Str(<<"maize rust">>))),
   Upstream("timeout", 0, NoBody), Upstream("noresponse", 0, NoBody),
   Upstream("response", 401, NoBody), Upstream("response", 503, NoBody)}

\* text and language of the body of localizeLanguage.
SpeechTexts == {Undefined, Str(<<"Apply fungicide early">>)}
SpeechLanguages == {Undefined, Str(<<"tw">>), Str(<<"ee">>), Str(<<"fr">>)}

UploadFiles == {"none", "audio", "image"}
UploadLanguages ==
  {Undefined, Str(<<"tw">>), Str(<<"fr">>), Str(<<"constructor">>)}

\* ---------------------------------------------------------- request slots
Idle ==
  [op |-> "none", pc |-> "idle",
   voiceInput |-> Undefined, imageResult |-> Undefined, language |-> Undefined,
   diagnosisId |-> Undefined, speakerId |-> Undefined, hasAudio |-> FALSE,
   file |-> "none", upstream |-> NoUpstream,
   username |-> Undefined, phoneNumber |-> Undefined,
   bodyCombinedResult |-> Undefined,
   combinedResult |-> <<>>, searchResponse |-> NoSearchResponse,
   searchResults |-> <<>>,
   doc |-> NoDoc, loaded |-> NoDoc,
   localizedText |-> Undefined, selectedSpeakerId |-> Undefined,
   audioURL |-> Undefined, transcribedText |-> Undefined,
   calls |-> <<>>, res |-> <<>>]

\* An outbound call (HTTP or store) the request has issued.
Call(to, text, speaker) ==
  [to |-> to, text |-> text, speaker |-> speaker, outcome |-> "pending"]

\* Mutant of Issue: the call is sent a second time without waiting for the
\* first.
Issue_Twice(r, to, text, speaker) ==
  Append(Append(r.calls, Call(to, text, speaker)), Call(to, text, speaker))

Issue(r, to, text, speaker) == Append(r.calls, Call(to, text, speaker))

\* The awaited call has returned or thrown.
Settle(calls, outcome) == [calls EXCEPT ![Len(calls)].outcome = outcome]

\* res.status(code).json({error | message})
Respond(r, code, text) == Append(r.res, [status |-> code, text |-> text])

\* res.status(code).json({message, ...body})
RespondWith(r, code, text, body) ==
  Append(r.res, [status |-> code, text |-> text] @@ body)

Free(k) == req[k].pc \in {"idle", "done"} /\ started < MaxRequests

Init ==
  /\ diagnoses = <<>>
  /\ createdBy = <<>>
  /\ created = 0
  /\ started = 0
  /\ translationURL \in BOOLEAN
  /\ users = <<>>
  /\ userIndexes = {}
  /\ req = [k \in Slots |-> Idle]

\* ------------------------------------------------------- createDiagnosis
\* Mutant of MissingInput: tests for absent fields only, so an empty string
\* counts as an input.
MissingInput_UndefinedOnly(voiceInput, imageResult) ==
  voiceInput.t = "undefined" /\ imageResult.t = "undefined"

\* if (!imageResult && !voiceInput)
MissingInput(voiceInput, imageResult) == ~Truthy(imageResult) /\ ~Truthy(voiceInput)

\* req.body of createDiagnosis: the three fields the handler destructures
\* and a combinedResult field of the client's own.
Body(voiceInput, imageResult, language, combinedResult) ==
  [voiceInput |-> voiceInput, imageResult |-> imageResult,
   language |-> language, combinedResult |-> combinedResult]

\* Entry of createDiagnosis up to the await of searchTreatmentInfo:
\* const { voiceInput, imageResult, language } = req.body.
CreateDiagnosisReceive(k, body) ==
  /\ Free(k)
  /\ started' = started + 1
  /\ LET voiceInput == body.voiceInput
         imageResult == body.imageResult
         language == body.language
         r == [Idle EXCEPT !.op = "createDiagnosis", !.voiceInput = voiceInput,
                           !.imageResult = imageResult, !.language = language,
                           !.bodyCombinedResult = body.combinedResult]
     IN req' = [req EXCEPT ![k] =
          IF MissingInput(voiceInput, imageResult)
            THEN [r EXCEPT !.pc = "done",
                           !.res = Respond(r, 400,
                             "Either voiceInput or imageResult must be provided.")]
            ELSE [r EXCEPT !.pc = "search",
                           !.combinedResult = Narrative(voiceInput, imageResult),
                           !.calls = Issue(r, "search",
                                           SearchQuery(voiceInput, imageResult),
                                           Undefined)]]
  /\ UNCHANGED <<diagnoses, createdBy, created, translationURL, userStore>>

\* createDiagnosis on a body of the three fields alone.
CreateDiagnosisStart(k, voiceInput, imageResult, language) ==
  CreateDiagnosisReceive(k, Body(voiceInput, imageResult, language, Undefined))

\* Mutant of DiagnosisCombinedResult: a combinedResult of the body wins over
\* the derived text.
DiagnosisCombinedResult_BodyFirst(supplied, comprehensiveDiagnosis) ==
  OrElse(supplied, Str(comprehensiveDiagnosis))

\* The combinedResult handed to new Diagnosis({...}): the derived text; the
\* body of the request is not spread into the document.
DiagnosisCombinedResult(supplied, comprehensiveDiagnosis) ==
  Str(comprehensiveDiagnosis)

\* The search call returns or throws and searchTreatmentInfo settles;
\* recommendations are generated, the document is constructed and its save
\* is issued.  Were searchTreatmentInfo to reject, the catch of createDiagnosis
\* would answer 500.
CreateDiagnosisSearched(k, outcome) ==
  /\ req[k].op = "createDiagnosis" /\ req[k].pc = "search"
  /\ LET r == req[k]
         searchResults == searchTreatmentInfo(outcome)
         treatmentRecommendations ==
           generateTreatmentRecommendations(
             searchResults, OrElse(r.imageResult, r.voiceInput))
         comprehensiveDiagnosis ==
           ComprehensiveDiagnosis(r.combinedResult, treatmentRecommendations)
         settled == [r EXCEPT !.searchResponse = outcome,
                              !.calls = Settle(r.calls,
                       IF outcome.kind = "ok" THEN "ok" ELSE "failed")]
     IN IF searchTreatmentInfoThrows(outcome)
          THEN /\ req' = [req EXCEPT ![k] =
                    [settled EXCEPT
                       !.pc = "done",
                       !.res = Respond(settled, 500, "Failed to create diagnosis.")]]
               /\ UNCHANGED created
          ELSE /\ req' = [req EXCEPT ![k] =
                    [settled EXCEPT
                       !.pc = "save",
                       !.searchResults = searchResults,
                       !.doc = NewDiagnosis(created + 1, r.voiceInput, r.imageResult,
                                            DiagnosisCombinedResult(
                                              r.bodyCombinedResult,
                                              comprehensiveDiagnosis),
                                            r.language),
                       !.calls = Issue(settled, "save", Undefined, Undefined)]]
               /\ created' = created + 1
  /\ UNCHANGED <<diagnoses, createdBy, started, translationURL, userStore>>

\* newDiagnosis.save() settles: inserted and 201, or rejected by validation
\* and 500 from the catch.
CreateDiagnosisSaved(k) ==
  /\ req[k].op = "createDiagnosis" /\ req[k].pc = "save"
  /\ LET r == req[k] IN
     IF Validates(r.doc)
       THEN /\ diagnoses' = Append(diagnoses, r.doc)
            /\ createdBy' = Append(createdBy, "createDiagnosis")
            /\ req' = [req EXCEPT ![k] =
                 [r EXCEPT !.pc = "done", !.calls = Settle(r.calls, "ok"),
                           !.res = RespondWith(r, 201,
                             "Comprehensive diagnosis created successfully.",
                             [id |-> r.doc.id,
                              combinedResult |-> r.doc.combinedResult,
                              language |-> r.doc.language,
                              searchResultsCount |-> Len(r.searchResults)])]]
       ELSE /\ UNCHANGED <<diagnoses, createdBy>>
            /\ req' = [req EXCEPT ![k] =
                 [r EXCEPT !.pc = "done", !.calls = Settle(r.calls, "failed"),
                           !.res = Respond(r, 500, "Failed to create diagnosis.")]]
  /\ UNCHANGED <<created, started, translationURL, userStore>>


\* -------------------------------------------------------- localizeOutput
\* TRANSLATION_URL && diagnosis.language !== 'en'
TranslationAttempted(url, language) == url /\ LangKey(language) # "en"

\* Mutant of SelectSpeaker: the speakerId of the request is not looked at.
SelectSpeaker_DefaultOnly(speakerId, language) == getDefaultSpeaker(language)

\* speakerId || getDefaultSpeaker(diagnosis.language)
SelectSpeaker(speakerId, language) == OrElse(speakerId, getDefaultSpeaker(language))

\* Mutant of CatchStatus: the upstream status is passed on.
CatchStatus_Upstream(outcome) ==
  IF outcome.kind = "response" THEN outcome.status ELSE 500

\* The handler's answer to a thrown error: 500 in both branches of the catch.
CatchStatus(outcome) == 500

CatchText(outcome, withResponse, without) ==
  IF outcome.kind = "response" THEN withResponse ELSE without

\* Voice selection and the issue of the synthesis call for text `text`.
ToSynthesis(r, text) ==
  LET selectedSpeakerId == SelectSpeaker(r.speakerId, r.doc.language) IN
  [r EXCEPT !.pc = "tts", !.localizedText = text,
            !.selectedSpeakerId = selectedSpeakerId,
            !.calls = Issue(r, "tts", text, selectedSpeakerId)]

\* Entry of localizeOutput up to the await of findById.
LocalizeOutputStart(k, diagnosisId, speakerId) ==
  /\ Free(k)
  /\ started' = started + 1
  /\ LET r == [Idle EXCEPT !.op = "localizeOutput", !.diagnosisId = diagnosisId,
                           !.speakerId = speakerId]
     IN req' = [req EXCEPT ![k] =
          IF ~Truthy(diagnosisId)
            THEN [r EXCEPT !.pc = "done",
                           !.res = Respond(r, 400, "Diagnosis ID is required.")]
            ELSE [r EXCEPT !.pc = "findById",
                           !.calls = Issue(r, "findById", diagnosisId, Undefined)]]
  /\ UNCHANGED <<diagnoses, createdBy, created, translationURL, userStore>>

\* findById throws (500 from the catch) or returns: 404, 400 for a language
\* without voices, else the translation call or, when none is attempted, the
\* synthesis call is issued.
LocalizeOutputFound(k) ==
  /\ req[k].op = "localizeOutput" /\ req[k].pc = "findById"
  /\ LET diagnosis == FindById(diagnoses, req[k].diagnosisId)
         r == [req[k] EXCEPT !.calls = Settle(req[k].calls, "ok"),
                             !.doc = diagnosis, !.loaded = diagnosis]
     IN req' = [req EXCEPT ![k] =
          IF ~IsObjectId(req[k].diagnosisId)
            THEN [req[k] EXCEPT !.pc = "done",
                                !.calls = Settle(req[k].calls, "failed"),
                                !.res = Respond(req[k], 500, "Localization failed.")]
          ELSE IF diagnosis = NoDoc
            THEN [r EXCEPT !.pc = "done",
                           !.res = Respond(r, 404, "Diagnosis not found.")]
          ELSE IF ~HasSpeakerEntry(diagnosis.language)
            THEN [r EXCEPT !.pc = "done",
                           !.res = Respond(r, 400, "Language is not supported for TTS.")]
          ELSE IF TranslationAttempted(translationURL, diagnosis.language)
            THEN [r EXCEPT !.pc = "translate",
                           !.localizedText = diagnosis.combinedResult,
                           !.calls = Issue(r, "translate",
                                           diagnosis.combinedResult, Undefined)]
          ELSE ToSynthesis(r, diagnosis.combinedResult)]
  /\ UNCHANGED <<diagnoses, createdBy, created, started, translationURL, userStore>>

\* Mutant of AfterTranslation: the text is taken from the response also when
\* the call threw.
AfterTranslation_Unguarded(localizedText, outcome) == outcome.out

\* The text localizeOutput goes on with after the translation call:
\* translationRes.data.out, or the text it had when the call threw.
AfterTranslation(localizedText, outcome) ==
  IF outcome.kind = "ok" THEN outcome.out ELSE localizedText

\* The translation call returns or throws; the synthesis call is issued.
LocalizeOutputTranslated(k, outcome) ==
  /\ req[k].op = "localizeOutput" /\ req[k].pc = "translate"
  /\ LET r == [req[k] EXCEPT !.calls = Settle(req[k].calls,
                 IF outcome.kind = "ok" THEN "ok" ELSE "failed")]
     IN req' = [req EXCEPT ![k] =
          ToSynthesis(r, AfterTranslation(r.localizedText, outcome))]
  /\ UNCHANGED <<diagnoses, createdBy, created, started, translationURL, userStore>>

\* The synthesis call returns (the loaded document gets the localized text
\* and the data URL, and its save is issued) or throws (500, no save).
LocalizeOutputSynthesized(k, outcome) ==
  /\ req[k].op = "localizeOutput" /\ req[k].pc = "tts"
  /\ LET r == [req[k] EXCEPT !.calls = Settle(req[k].calls,
                 IF outcome.kind = "ok" THEN "ok" ELSE "failed")]
         audioURL == AudioDataURL(outcome.data)
     IN req' = [req EXCEPT ![k] =
          IF outcome.kind = "ok"
            THEN [r EXCEPT
                    !.pc = "save",
                    !.audioURL = audioURL,
                    !.doc = Localized(r.doc, r.localizedText, audioURL),
                    !.calls = Issue(r, "save", Undefined, Undefined)]
            ELSE [r EXCEPT
                    !.pc = "done",
                    !.res = Respond(r, CatchStatus(outcome),
                              CatchText(outcome, "TTS API request failed.",
                                        "Localization failed."))]]
  /\ UNCHANGED <<diagnoses, createdBy, created, started, translationURL, userStore>>

\* diagnosis.save() settles; the response is sent.
LocalizeOutputSaved(k) ==
  /\ req[k].op = "localizeOutput" /\ req[k].pc = "save"
  /\ diagnoses' = SaveModified(diagnoses, req[k].doc,
                             ModifiedPaths(req[k].loaded, req[k].doc))
  /\ req' = [req EXCEPT ![k] =
       [req[k] EXCEPT !.pc = "done", !.calls = Settle(req[k].calls, "ok"),
                      !.res = RespondWith(req[k], 200, "Localization completed.",
                                [localizedText |-> req[k].localizedText,
                                 audioURL |-> req[k].audioURL,
                                 speakerId |-> req[k].selectedSpeakerId,
                                 language |-> req[k].doc.language])]]
  /\ UNCHANGED <<createdBy, created, started, translationURL, userStore>>

\* ----------------------------------------------- processAudioAndLocalize
\* Entry of processAudioAndLocalize up to the await of the ASR call.
ProcessAudioStart(k, language, speakerId, hasAudio) ==
  /\ Free(k)
  /\ started' = started + 1
  /\ LET r == [Idle EXCEPT !.op = "processAudioAndLocalize",
                           !.language = language, !.speakerId = speakerId,
                           !.hasAudio = hasAudio]
     IN req' = [req EXCEPT ![k] =
          IF ~Truthy(language)
            THEN [r EXCEPT !.pc = "done",
                           !.res = Respond(r, 400, "Language parameter is required.")]
          ELSE IF LangKey(language) \notin ASR_SUPPORTED_LANGUAGES
            THEN [r EXCEPT !.pc = "done",
                           !.res = Respond(r, 400, "Language is not supported for ASR.")]
          ELSE IF ~hasAudio
            THEN [r EXCEPT !.pc = "done",
                           !.res = Respond(r, 400,
                                     "Audio file or audio data is required.")]
          ELSE [r EXCEPT !.pc = "asr",
                         !.calls = Issue(r, "asr", Undefined, Undefined)]]
  /\ UNCHANGED <<diagnoses, createdBy, created, translationURL, userStore>>

\* new Diagnosis({combinedResult: transcribedText, language, ...}): the
\* fields the handler passes; inputMethod and originalAudioSize are not
\* paths of the schema.
AudioDiagnosis(n, transcribedText, language) ==
  NewDiagnosis(n, Undefined, Undefined, transcribedText, language)

\* The ASR call returns (the document is constructed and its first save is
\* issued) or throws (500).
ProcessAudioTranscribed(k, outcome) ==
  /\ req[k].op = "processAudioAndLocalize" /\ req[k].pc = "asr"
  /\ LET r == [req[k] EXCEPT !.calls = Settle(req[k].calls,
                 IF outcome.kind = "ok" THEN "ok" ELSE "failed")]
     IN IF outcome.kind = "ok"
          THEN /\ req' = [req EXCEPT ![k] =
                    [r EXCEPT !.pc = "save1",
                              !.transcribedText = outcome.data,
                              !.doc = AudioDiagnosis(created + 1, outcome.data,
                                                     r.language),
                              !.calls = Issue(r, "save", Undefined, Undefined)]]
               /\ created' = created + 1
          ELSE /\ req' = [req EXCEPT ![k] =
                    [r EXCEPT !.pc = "done",
                              !.res = Respond(r, CatchStatus(outcome),
                                                 "Audio processing failed.")]]
               /\ UNCHANGED created
  /\ UNCHANGED <<diagnoses, createdBy, started, translationURL, userStore>>

\* The first save settles: rejected by validation (500), or inserted; then
\* the synthesis call is issued when the language has voices, else 200.
ProcessAudioSaved1(k) ==
  /\ req[k].op = "processAudioAndLocalize" /\ req[k].pc = "save1"
  /\ LET r == req[k] IN
     IF ~Validates(r.doc)
       THEN /\ req' = [req EXCEPT ![k] =
                 [r EXCEPT !.pc = "done", !.calls = Settle(r.calls, "failed"),
                           !.res = Respond(r, 500, "Audio processing failed.")]]
            /\ UNCHANGED <<diagnoses, createdBy>>
       ELSE /\ diagnoses' = Append(diagnoses, r.doc)
            /\ createdBy' = Append(createdBy, "processAudioAndLocalize")
            /\ LET s == [r EXCEPT !.calls = Settle(r.calls, "ok"),
                                  !.loaded = r.doc,
                                  !.localizedText = r.transcribedText]
               IN req' = [req EXCEPT ![k] =
                    IF HasSpeakerEntry(r.language)
                      THEN ToSynthesis(s, r.transcribedText)
                      ELSE [s EXCEPT !.pc = "done",
                              !.selectedSpeakerId =
                                 SelectSpeaker(r.speakerId, r.language),
                              !.res = Respond(s, 200,
                                "Audio processing and localization completed.")]]
  /\ UNCHANGED <<created, started, translationURL, userStore>>

\* The synthesis call returns (audioURL is set on the document and the
\* second save is issued) or throws (500).
ProcessAudioSynthesized(k, outcome) ==
  /\ req[k].op = "processAudioAndLocalize" /\ req[k].pc = "tts"
  /\ LET r == [req[k] EXCEPT !.calls = Settle(req[k].calls,
                 IF outcome.kind = "ok" THEN "ok" ELSE "failed")]
         audioURL == AudioDataURL(outcome.data)
     IN req' = [req EXCEPT ![k] =
          IF outcome.kind = "ok"
            THEN [r EXCEPT
                    !.pc = "save2",
                    !.audioURL = audioURL,
                    !.doc = WithAudio(r.doc, audioURL),
                    !.calls = Issue(r, "save", Undefined, Undefined)]
            ELSE [r EXCEPT
                    !.pc = "done",
                    !.res = Respond(r, CatchStatus(outcome),
                                       "Audio processing failed.")]]
  /\ UNCHANGED <<diagnoses, createdBy, created, started, translationURL, userStore>>

\* The second save settles; the response is sent.
ProcessAudioSaved2(k) ==
  /\ req[k].op = "processAudioAndLocalize" /\ req[k].pc = "save2"
  /\ diagnoses' = SaveModified(diagnoses, req[k].doc,
                             ModifiedPaths(req[k].loaded, req[k].doc))
  /\ req' = [req EXCEPT ![k] =
       [req[k] EXCEPT !.pc = "done", !.calls = Settle(req[k].calls, "ok"),
                      !.res = Respond(req[k], 200,
                                "Audio processing and localization completed.")]]
  /\ UNCHANGED <<createdBy, created, started, translationURL, userStore>>

\* ------------------------------------------------------ handleVoiceUpload
\* GHANA_API_KEY and IMAGE_MODEL_URL are taken to be configured.

\* A response body used as a value (truthy, and no string).
TheObject == [t |-> "object", s |-> <<>>]

Whitespace == {" ", "\n", "\t"}

\* String.prototype.trim on a text.
RECURSIVE Trim(_)
Trim(tokens) ==
  IF tokens = <<>> THEN <<>>
  ELSE IF Head(tokens) \in Whitespace THEN Trim(Tail(tokens))
  ELSE IF tokens[Len(tokens)] \in Whitespace
    THEN Trim(SubSeq(tokens, 1, Len(tokens) - 1))
  ELSE tokens

\* SUPPORTED_LANGUAGES[language] used as a condition (an object literal).
AsrLanguageKnown(language) ==
  LangKey(language) \in ASR_SUPPORTED_LANGUAGES \cup InheritedKeys

\* The transcription handleVoiceUpload takes from response.data: the body
\* when it is a text, else its first truthy field among transcription, text,
\* result, else the body itself.
ExtractTranscription(data) ==
  IF data.type = "string" THEN data.value
  ELSE IF Truthy(data.transcription) THEN data.transcription
  ELSE IF Truthy(data.text) THEN data.text
  ELSE IF Truthy(data.result) THEN data.result
  ELSE TheObject

\* The status of the catch of handleVoiceUpload: 500 for a timeout, for an
\* unreachable service and for an error without response; the upstream's own
\* status for an error with a response.
VoiceCatchStatus(outcome) ==
  IF outcome.kind \in {"timeout", "unreachable"} THEN 500
  ELSE IF outcome.kind = "response"
    THEN (IF outcome.status # 0 THEN outcome.status ELSE 500)
  ELSE 500

VoiceCatchText(outcome) ==
  IF outcome.kind = "timeout"
    THEN "Request timeout - the speech recognition service is taking too long to respond."
  ELSE IF outcome.kind = "unreachable" THEN "Cannot connect to Ghana NLP API"
  ELSE IF outcome.kind = "response"
    THEN (IF outcome.status = 400
            THEN "Bad request - invalid audio format or language."
            ELSE "Voice transcription failed.")
  ELSE "Voice transcription failed."

\* Entry of handleVoiceUpload (models/diagnosis.js) up to the await of the
\* ASR call.  `language` stands for req.body.language || req.query.language.
HandleVoiceUploadStart(k, file, language) ==
  /\ Free(k)
  /\ started' = started + 1
  /\ LET lang == OrElse(language, Str(<<"tw">>))
         r == [Idle EXCEPT !.op = "handleVoiceUpload", !.file = file,
                           !.language = lang]
     IN req' = [req EXCEPT ![k] =
          IF file = "none"
            THEN [r EXCEPT !.pc = "done",
                           !.res = Respond(r, 400, "No audio file uploaded.")]
          ELSE IF file # "audio"
            THEN [r EXCEPT !.pc = "done",
                           !.res = Respond(r, 400, "Invalid audio file format.")]
          ELSE IF ~AsrLanguageKnown(lang)
            THEN [r EXCEPT !.pc = "done",
                           !.res = RespondWith(r, 400, "Unsupported language",
                                     [supportedLanguages |->
                                        ASR_SUPPORTED_LANGUAGES])]
          ELSE [r EXCEPT !.pc = "asr",
                         !.calls = Issue(r, "asr", Undefined, Undefined)]]
  /\ UNCHANGED <<diagnoses, createdBy, created, translationURL, userStore>>

\* The ASR call returns or throws.  On a body: the transcription is taken
\* from it; a falsy or blank one is answered 500 'No transcription received',
\* one that is no string throws at trim() into the catch, any other is
\* answered 200, trimmed.
HandleVoiceUploadTranscribed(k, outcome) ==
  /\ req[k].op = "handleVoiceUpload" /\ req[k].pc = "asr"
  /\ LET r == [req[k] EXCEPT !.upstream = outcome,
                             !.calls = Settle(req[k].calls,
                               IF outcome.kind = "ok" THEN "ok" ELSE "failed")]
         transcription == ExtractTranscription(outcome.data)
         thrown == Upstream("noresponse", 0, NoBody)
     IN req' = [req EXCEPT ![k] =
          IF outcome.kind # "ok"
            THEN [r EXCEPT !.pc = "done",
                           !.res = Respond(r, VoiceCatchStatus(outcome),
                                           VoiceCatchText(outcome))]
          ELSE IF transcription = TheObject
            THEN [r EXCEPT !.pc = "done",
                           !.res = Respond(r, VoiceCatchStatus(thrown),
                                           VoiceCatchText(thrown))]
          ELSE IF ~Truthy(transcription) \/ Trim(transcription.s) = <<>>
            THEN [r EXCEPT !.pc = "done",
                           !.res = Respond(r, 500,
                                     "No transcription received from ASR service")]
          ELSE [r EXCEPT !.pc = "done",
                         !.transcribedText = Str(Trim(transcription.s)),
                         !.res = RespondWith(r, 200, "success",
                                   [transcription |-> Str(Trim(transcription.s))])]]
  /\ UNCHANGED <<diagnoses, createdBy, created, started, translationURL, userStore>>

\* ---------------------------- handleVoiceUpload (controllers/upload.js)
\* The status of the catch of the handler that calls the GhanaNLP client:
\* 401 for a message that names the API key, 503 for one that names the
\* network, else 500.
ClientCatchStatus(outcome) ==
  IF outcome.kind = "apikey" THEN 401
  ELSE IF outcome.kind = "network" THEN 503
  ELSE 500

ClientCatchText(outcome) ==
  IF outcome.kind = "apikey" THEN "Invalid API key"
  ELSE IF outcome.kind = "network" THEN "Service unavailable"
  ELSE "Voice transcription failed."

\* Entry of handleVoiceUpload (controllers/upload.js) up to the await of
\* ghanaNLPClient.transcribeAudio.
ClientVoiceUploadStart(k, file, language) ==
  /\ Free(k)
  /\ started' = started + 1
  /\ LET lang == OrElse(language, Str(<<"tw">>))
         r == [Idle EXCEPT !.op = "handleVoiceUpload (client)", !.file = file,
                           !.language = lang]
     IN req' = [req EXCEPT ![k] =
          IF file = "none"
            THEN [r EXCEPT !.pc = "done",
                           !.res = Respond(r, 400, "No audio file uploaded.")]
          ELSE IF ~AsrLanguageKnown(lang)
            THEN [r EXCEPT !.pc = "done",
                           !.res = RespondWith(r, 400, "Unsupported language",
                                     [supportedLanguages |->
                                        ASR_SUPPORTED_LANGUAGES])]
          ELSE [r EXCEPT !.pc = "asr",
                         !.calls = Issue(r, "asr", Undefined, Undefined)]]
  /\ UNCHANGED <<diagnoses, createdBy, created, translationURL, userStore>>

\* transcribeAudio returns (200 with transcribedText || text || '') or throws.
ClientVoiceUploadTranscribed(k, outcome) ==
  /\ req[k].op = "handleVoiceUpload (client)" /\ req[k].pc = "asr"
  /\ LET r == [req[k] EXCEPT !.upstream = outcome,
                             !.calls = Settle(req[k].calls,
                               IF outcome.kind = "ok" THEN "ok" ELSE "failed")]
         transcription ==
           OrElse(OrElse(outcome.data.transcribedText, outcome.data.text),
                  Str(<<>>))
     IN req' = [req EXCEPT ![k] =
          IF outcome.kind # "ok"
            THEN [r EXCEPT !.pc = "done",
                           !.res = Respond(r, ClientCatchStatus(outcome),
                                           ClientCatchText(outcome))]
            ELSE [r EXCEPT !.pc = "done",
                           !.transcribedText = transcription,
                           !.res = RespondWith(r, 200, "success",
                                     [transcription |-> transcription])]]
  /\ UNCHANGED <<diagnoses, createdBy, created, started, translationURL, userStore>>

\* ------------------------------------------------------- localizeLanguage
\* Math.floor(Math.random() * 4) + 1 is one of 1..RandomSpeakers.
RandomSpeakers == 4

\* `twi_speaker_${n}`
RandomSpeaker(n) == Str(<<"twi_speaker_" \o ToString(n)>>)

\* Entry of localizeLanguage up to the await of the synthesis call: 400
\* without text; language || 'tw'; speaker_id || a twi voice drawn at random;
\* 400 for a language outside supportedLanguages.
LocalizeLanguageStart(k, text, language, speaker_id, random) ==
  /\ Free(k)
  /\ started' = started + 1
  /\ LET lang == OrElse(language, Str(<<"tw">>))
         speaker == OrElse(speaker_id, RandomSpeaker(random))
         r == [Idle EXCEPT !.op = "localizeLanguage", !.language = lang,
                           !.speakerId = speaker_id, !.localizedText = text]
     IN req' = [req EXCEPT ![k] =
          IF ~Truthy(text)
            THEN [r EXCEPT !.pc = "done",
                           !.res = Respond(r, 400,
                             "Text is required for text-to-speech conversion")]
          ELSE IF ~AsrLanguageKnown(lang)
            THEN [r EXCEPT !.pc = "done",
                           !.selectedSpeakerId = speaker,
                           !.res = RespondWith(r, 400, "Unsupported language",
                                     [supportedLanguages |->
                                        ASR_SUPPORTED_LANGUAGES])]
          ELSE [r EXCEPT !.pc = "tts",
                         !.selectedSpeakerId = speaker,
                         !.calls = Issue(r, "tts", text, speaker)]]
  /\ UNCHANGED <<diagnoses, createdBy, created, translationURL, userStore>>

\* The synthesis call returns or throws: 200 with the audio in base64; 503
\* for a thrown fetch (its message names fetch), 500 for a response that is
\* not ok (the upstream body taken not to name the API key or the network).
LocalizeLanguageSynthesized(k, outcome) ==
  /\ req[k].op = "localizeLanguage" /\ req[k].pc = "tts"
  /\ LET r == [req[k] EXCEPT !.calls = Settle(req[k].calls,
                 IF outcome.kind = "ok" THEN "ok" ELSE "failed")]
     IN req' = [req EXCEPT ![k] =
          IF outcome.kind = "ok"
            THEN [r EXCEPT !.pc = "done",
                           !.res = RespondWith(r, 200, "success",
                                     [audio |-> Base64(outcome.data),
                                      language |-> r.language,
                                      speaker_id |-> r.selectedSpeakerId])]
          ELSE IF outcome.kind = "noresponse"
            THEN [r EXCEPT !.pc = "done",
                           !.res = Respond(r, 503, "Service unavailable")]
          ELSE [r EXCEPT !.pc = "done",
                         !.res = Respond(r, 500,
                                   "Text-to-speech conversion failed.")]]
  /\ UNCHANGED <<diagnoses, createdBy, created, started, translationURL, userStore>>

\* ------------------------------------------------------ handleImageUpload
\* Entry of handleImageUpload up to the await of the prediction call.
HandleImageUploadStart(k, file) ==
  /\ Free(k)
  /\ started' = started + 1
  /\ LET r == [Idle EXCEPT !.op = "handleImageUpload", !.file = file]
     IN req' = [req EXCEPT ![k] =
          IF file = "none"
            THEN [r EXCEPT !.pc = "done",
                           !.res = Respond(r, 400, "No image file uploaded.")]
          ELSE IF file # "image"
            THEN [r EXCEPT !.pc = "done",
                           !.res = Respond(r, 400, "Invalid image file format.")]
          ELSE [r EXCEPT !.pc = "predict",
                         !.calls = Issue(r, "predict", Undefined, Undefined)]]
  /\ UNCHANGED <<diagnoses, createdBy, created, translationURL, userStore>>

\* The prediction call returns (200 with the prediction) or throws (500 in
\* every branch of the catch).
HandleImageUploadPredicted(k, outcome) ==
  /\ req[k].op = "handleImageUpload" /\ req[k].pc = "predict"
  /\ LET r == [req[k] EXCEPT !.upstream = outcome,
                             !.calls = Settle(req[k].calls,
                               IF outcome.kind = "ok" THEN "ok" ELSE "failed")]
     IN req' = [req EXCEPT ![k] =
          IF outcome.kind = "ok"
            THEN [r EXCEPT !.pc = "done",
                           !.res = RespondWith(r, 200, "success",
                                     [disease |-> outcome.data.text])]
            ELSE [r EXCEPT !.pc = "done",
                           !.res = Respond(r, 500,
                             IF outcome.kind = "timeout" THEN "Request timeout"
                             ELSE "Image classification failed")]]
  /\ UNCHANGED <<diagnoses, createdBy, created, started, translationURL, userStore>>

\* ---------------------------------------------------------- specification
Next ==
  \/ \E k \in Slots, v \in VoiceInputs, i \in ImageResults, l \in CreateLanguages :
       CreateDiagnosisStart(k, v, i, l)
  \/ \E k \in Slots, o \in SearchOutcomes : CreateDiagnosisSearched(k, o)
  \/ \E k \in Slots : CreateDiagnosisSaved(k)
  \/ \E k \in Slots, d \in DiagnosisIds, s \in SpeakerIds :
       LocalizeOutputStart(k, d, s)
  \/ \E k \in Slots : LocalizeOutputFound(k)
  \/ \E k \in Slots, o \in TranslationOutcomes : LocalizeOutputTranslated(k, o)
  \/ \E k \in Slots, o \in TtsOutcomes : LocalizeOutputSynthesized(k, o)
  \/ \E k \in Slots : LocalizeOutputSaved(k)
  \/ \E k \in Slots, l \in AudioLanguages, s \in SpeakerIds, a \in BOOLEAN :
       ProcessAudioStart(k, l, s, a)
  \/ \E k \in Slots, o \in AsrOutcomes : ProcessAudioTranscribed(k, o)
  \/ \E k \in Slots : ProcessAudioSaved1(k)
  \/ \E k \in Slots, o \in TtsOutcomes : ProcessAudioSynthesized(k, o)
  \/ \E k \in Slots : ProcessAudioSaved2(k)

Spec == Init /\ [][Next]_vars

\* createDiagnosis alone, on the wider choice of request fields and search
\* outcomes.
NextCompose ==
  \/ \E k \in Slots, v \in ComposeVoiceInputs, i \in ComposeImageResults,
        l \in ComposeLanguages : CreateDiagnosisStart(k, v, i, l)
  \/ \E k \in Slots, o \in ComposeSearchOutcomes : CreateDiagnosisSearched(k, o)
  \/ \E k \in Slots : CreateDiagnosisSaved(k)

SpecCompose == Init /\ [][NextCompose]_vars

\* createDiagnosis alone, on one request body and every way the search call
\* can end.
NextSearch ==
  \/ \E k \in Slots, v \in SearchVoiceInputs, i \in SearchImageResults,
        l \in SearchLanguages : CreateDiagnosisStart(k, v, i, l)
  \/ \E k \in Slots, o \in WideSearchOutcomes : CreateDiagnosisSearched(k, o)
  \/ \E k \in Slots : CreateDiagnosisSaved(k)

SpecSearch == Init /\ [][NextSearch]_vars

\* createDiagnosis alone, on request bodies that carry a combinedResult of
\* the client's own beside the three fields the handler reads.
BodyVoiceInputs == {Str(<<"leaves turning yellow">>)}
BodyImageResults == {Undefined, Str(<<"maize rust">>)}
BodyLanguages == {Str(<<"tw">>)}
BodyCombinedResults == {Undefined, Str(<<"Diagnosis: healthy plant.">>)}
BodySearchOutcomes == SearchOutcomes \cup {SearchOk(<<>>)}

Bodies ==
  {Body(v, i, l, c) : v \in BodyVoiceInputs, i \in BodyImageResults,
                      l \in BodyLanguages, c \in BodyCombinedResults}

NextBody ==
  \/ \E k \in Slots, b \in Bodies : CreateDiagnosisReceive(k, b)
  \/ \E k \in Slots, o \in BodySearchOutcomes : CreateDiagnosisSearched(k, o)
  \/ \E k \in Slots : CreateDiagnosisSaved(k)

SpecBody == Init /\ [][NextBody]_vars

\* The upload handlers alone, on every way their upstream call can end.
NextUpload ==
  \/ \E k \in Slots, f \in UploadFiles, l \in UploadLanguages :
       HandleVoiceUploadStart(k, f, l)
  \/ \E k \in Slots, o \in VoiceOutcomes : HandleVoiceUploadTranscribed(k, o)
  \/ \E k \in Slots, f \in UploadFiles, l \in UploadLanguages :
       ClientVoiceUploadStart(k, f, l)
  \/ \E k \in Slots, o \in ClientOutcomes : ClientVoiceUploadTranscribed(k, o)
  \/ \E k \in Slots, f \in UploadFiles : HandleImageUploadStart(k, f)
  \/ \E k \in Slots, o \in ImageOutcomes : HandleImageUploadPredicted(k, o)
  \/ \E k \in Slots, t \in SpeechTexts, l \in SpeechLanguages,
        s \in SpeakerIds, n \in 1..RandomSpeakers :
       LocalizeLanguageStart(k, t, l, s, n)
  \/ \E k \in Slots, o \in TtsOutcomes : LocalizeLanguageSynthesized(k, o)

SpecUpload == Init /\ [][NextUpload]_vars

\* localizeOutput alone, on a store that holds the record of one completed
\* createDiagnosis call (voice only, language "tw", search failed), with ids
\* that match it, match nothing, or are not ObjectIds.
SeedVoiceInput == Str(<<"leaves turning yellow">>)

SeedDiagnosis ==
  NewDiagnosis(1, SeedVoiceInput, Undefined,
    Str(ComprehensiveDiagnosis(
          Narrative(SeedVoiceInput, Undefined),
          generateTreatmentRecommendations(
            searchTreatmentInfo(SearchError), OrElse(Undefined, SeedVoiceInput)))),
    Str(<<"tw">>))

LocalizeDiagnosisIds ==
  {Undefined, Oid(1), Oid(2), Str(<<"not-an-object-id">>)}

InitLocalize ==
  /\ diagnoses = <<SeedDiagnosis>>
  /\ createdBy = <<"createDiagnosis">>
  /\ created = 1
  /\ started = 0
  /\ translationURL \in BOOLEAN
  /\ users = <<>>
  /\ userIndexes = {}
  /\ req = [k \in Slots |-> Idle]

\* speakerId of the body: absent, a voice of the record's language, a voice
\* of another language.
LocalizeSpeakerIds == SpeakerIds \cup {Str(<<"kikuyu_speaker_1">>)}

NextLocalize ==
  \/ \E k \in Slots, d \in LocalizeDiagnosisIds, s \in LocalizeSpeakerIds :
       LocalizeOutputStart(k, d, s)
  \/ \E k \in Slots : LocalizeOutputFound(k)
  \/ \E k \in Slots, o \in TranslationOutcomes : LocalizeOutputTranslated(k, o)
  \/ \E k \in Slots, o \in TtsOutcomes : LocalizeOutputSynthesized(k, o)
  \/ \E k \in Slots : LocalizeOutputSaved(k)

SpecLocalize == InitLocalize /\ [][NextLocalize]_vars

\* localizeOutput alone, on the store a completed localizeOutput call leaves:
\* the record of SpecLocalize with the translated text and the audio of that
\* call.
SeedLocalizedText == Str(<<"Nhwehwemu kyere se afifide no yare">>)

SeedAudioURL == AudioDataURL(<<82, 73, 70>>)

InitRelocalize ==
  /\ diagnoses = <<Localized(SeedDiagnosis, SeedLocalizedText, SeedAudioURL)>>
  /\ createdBy = <<"createDiagnosis">>
  /\ created = 1
  /\ started = 0
  /\ translationURL \in BOOLEAN
  /\ users = <<>>
  /\ userIndexes = {}
  /\ req = [k \in Slots |-> Idle]

SpecRelocalize == InitRelocalize /\ [][NextLocalize]_vars

\* ---------------------------------------------------- getAvailableSpeakers
\* req.params.language of GET /speakers/:language, a path segment.
SpeakerLanguages ==
  {Str(<<"tw">>), Str(<<"ki">>), Str(<<"ee">>), Str(<<"fr">>), Str(<<"gaa">>),
   Str(<<"constructor">>)}

\* getAvailableSpeakers, which awaits nothing: 400 without a language, 404
\* with Object.keys(SPEAKER_MAPPING) when SPEAKER_MAPPING[language] is falsy,
\* else 200 with the entry and its index 0.
GetAvailableSpeakers(k, language) ==
  /\ Free(k)
  /\ started' = started + 1
  /\ LET r == [Idle EXCEPT !.op = "getAvailableSpeakers", !.language = language,
                           !.pc = "done"]
         speakers == SpeakerLookup(language)
     IN req' = [req EXCEPT ![k] =
          IF ~Truthy(language)
            THEN [r EXCEPT !.res = Respond(r, 400, "Language parameter is required.")]
          ELSE IF speakers.kind = "undefined"
            THEN [r EXCEPT !.res = RespondWith(r, 404, "Language not supported.",
                                     [supportedLanguages |-> DOMAIN SPEAKER_MAPPING])]
          ELSE [r EXCEPT !.res = RespondWith(r, 200, "success",
                  [language |-> language,
                   availableSpeakers |-> speakers.voices,
                   defaultSpeaker |->
                     IF speakers.kind = "array" THEN Str(<<speakers.voices[1]>>)
                     ELSE Undefined])]]
  /\ UNCHANGED <<diagnoses, createdBy, created, translationURL, userStore>>

\* The voice routes: the voice list of a language and localizeOutput, on the
\* store of SpecLocalize.
NextSpeakers ==
  \/ \E k \in Slots, l \in SpeakerLanguages : GetAvailableSpeakers(k, l)
  \/ NextLocalize

SpecSpeakers == InitLocalize /\ [][NextSpeakers]_vars

\* ------------------------------------------------------------ registerUser
\* username and phoneNumber of the body; firstName, lastName and password
\* are taken to be present.
Usernames == {Undefined, Str(<<"ama">>), Str(<<"kofi">>)}
PhoneNumbers == {Str(<<"+233201">>), Str(<<"+233202">>)}

\* The unique indexes the User schema may declare.
UserIndexes == SUBSET {"username", "phoneNumber"}

\* User.findOne({ $or: [{ username }, { phoneNumber }] })
FindUser(collection, username, phoneNumber) ==
  {i \in 1..Len(collection) :
     collection[i].username = username \/ collection[i].phoneNumber = phoneNumber}

\* The insert is rejected by a unique index: a stored user holds the same
\* value at an indexed path.
DuplicateKey(collection, user, indexes) ==
  \E f \in indexes, i \in 1..Len(collection) : collection[i][f] = user[f]

\* Entry of registerUser up to the await of findOne.
RegisterUserStart(k, username, phoneNumber) ==
  /\ Free(k)
  /\ started' = started + 1
  /\ LET r == [Idle EXCEPT !.op = "registerUser", !.username = username,
                           !.phoneNumber = phoneNumber]
     IN req' = [req EXCEPT ![k] =
          IF ~Truthy(username) \/ ~Truthy(phoneNumber)
            THEN [r EXCEPT !.pc = "done",
                           !.res = Respond(r, 400, "Please provide all required fields.")]
            ELSE [r EXCEPT !.pc = "findOne",
                           !.calls = Issue(r, "findOne", username, Undefined)]]
  /\ UNCHANGED <<diagnoses, createdBy, created, translationURL, userStore>>

\* findOne returns: 400 when a user holds the username or the phone number,
\* else the password hash is awaited.
RegisterUserFound(k) ==
  /\ req[k].op = "registerUser" /\ req[k].pc = "findOne"
  /\ LET r == [req[k] EXCEPT !.calls = Settle(req[k].calls, "ok")]
     IN req' = [req EXCEPT ![k] =
          IF FindUser(users, r.username, r.phoneNumber) # {}
            THEN [r EXCEPT !.pc = "done",
                           !.res = Respond(r, 400,
                             "Username or phone number already registered.")]
            ELSE [r EXCEPT !.pc = "hash",
                           !.calls = Issue(r, "hash", Undefined, Undefined)]]
  /\ UNCHANGED <<diagnoses, createdBy, created, started, translationURL, userStore>>

\* bcrypt.hash returns; User.create is issued.
RegisterUserHashed(k) ==
  /\ req[k].op = "registerUser" /\ req[k].pc = "hash"
  /\ LET r == [req[k] EXCEPT !.calls = Settle(req[k].calls, "ok")]
     IN req' = [req EXCEPT ![k] =
          [r EXCEPT !.pc = "create",
                    !.calls = Issue(r, "create", r.username, Undefined)]]
  /\ UNCHANGED <<diagnoses, createdBy, created, started, translationURL, userStore>>

\* User.create settles: the user is inserted and 201 is answered, or a unique
\* index rejects the insert and the catch answers 500.
RegisterUserCreated(k) ==
  /\ req[k].op = "registerUser" /\ req[k].pc = "create"
  /\ LET r == req[k]
         user == [username |-> r.username, phoneNumber |-> r.phoneNumber]
     IN IF DuplicateKey(users, user, userIndexes)
          THEN /\ users' = users
               /\ req' = [req EXCEPT ![k] =
                    [r EXCEPT !.pc = "done", !.calls = Settle(r.calls, "failed"),
                              !.res = Respond(r, 500, "Registration failed")]]
          ELSE /\ users' = Append(users, user)
               /\ req' = [req EXCEPT ![k] =
                    [r EXCEPT !.pc = "done", !.calls = Settle(r.calls, "ok"),
                              !.res = RespondWith(r, 201, "User registered successfully",
                                        [username |-> r.username,
                                         phoneNumber |-> r.phoneNumber])]]
  /\ UNCHANGED <<diagnoses, createdBy, created, started, translationURL, userIndexes>>

\* registerUser alone, on an empty User collection, for every set of unique
\* indexes the schema may declare.
InitUser ==
  /\ diagnoses = <<>>
  /\ createdBy = <<>>
  /\ created = 0
  /\ started = 0
  /\ translationURL = FALSE
  /\ users = <<>>
  /\ userIndexes \in UserIndexes
  /\ req = [k \in Slots |-> Idle]

NextUser ==
  \/ \E k \in Slots, u \in Usernames, p \in PhoneNumbers : RegisterUserStart(k, u, p)
  \/ \E k \in Slots : RegisterUserFound(k)
  \/ \E k \in Slots : RegisterUserHashed(k)
  \/ \E k \in Slots : RegisterUserCreated(k)

SpecUser == InitUser /\ [][NextUser]_vars

\* ======================================================== checked claims
Responded(r, code) == r.pc = "done" /\ Len(r.res) = 1 /\ r.res[1].status = code

CallsTo(r, to) == {n \in 1..Len(r.calls) : r.calls[n].to = to}

Stored(id) == FindById(diagnoses, id)

\* C1: createDiagnosis called with neither voiceInput nor imageResult (absent
\* or empty) answers 400 at once and issues no outbound call: no search, no
\* store write, no document constructed.
C1_MissingInputRejected ==
  \A k \in Slots :
    (req[k].op = "createDiagnosis"
       /\ ~Truthy(req[k].voiceInput) /\ ~Truthy(req[k].imageResult))
    => /\ Responded(req[k], 400)
       /\ req[k].res[1].text = "Either voiceInput or imageResult must be provided."
       /\ req[k].calls = <<>>
       /\ req[k].doc = NoDoc
       /\ \A i \in 1..Len(diagnoses) :
            Truthy(diagnoses[i].voiceInput) \/ Truthy(diagnoses[i].imageResult)
               \/ createdBy[i] # "createDiagnosis"

C1_Witness ==
  \E k \in Slots :
    /\ req[k].op = "createDiagnosis" /\ req[k].pc = "done"
    /\ req[k].voiceInput = Str(<<>>) /\ req[k].imageResult = Undefined
    /\ Len(diagnoses) = 1

\* The fixed five-point generic template for condition `info`.
FivePointTemplate(info) ==
  <<"Based on the identified condition: ">> \o info
    \o <<", here are general recommendations:\n    \n",
         "1. **Immediate Action**: Remove affected plant parts and dispose of them properly\n",
         "2. **Prevention**: Ensure proper spacing between plants for air circulation\n",
         "3. **Treatment**: Consider organic fungicides or pesticides appropriate for the condition\n",
         "4. **Monitoring**: Check plants regularly for early detection\n",
         "5. **Soil Management**: Ensure proper drainage and soil health\n",
         "\nPlease consult with local agricultural extension officers for specific treatment options available in your area.">>

\* The tokens of `text` after its first blank-line token.
RECURSIVE AfterBlankLine(_)
AfterBlankLine(text) ==
  IF text = <<>> THEN <<>>
  ELSE IF Head(text) = "\n\n" THEN Tail(text)
  ELSE AfterBlankLine(Tail(text))

SearchFailed(r) ==
  r.op = "createDiagnosis" /\ Len(r.calls) >= 1 /\ r.calls[1].outcome = "failed"

\* The condition the recommendations name: imageResult || voiceInput.
Condition(r) == IF Truthy(r.imageResult) THEN r.imageResult.s ELSE r.voiceInput.s

PersistedWithTemplate(r) ==
  /\ Responded(r, 201)
  /\ Stored(r.doc.id) # NoDoc
  /\ AfterBlankLine(Stored(r.doc.id).combinedResult.s) = FivePointTemplate(Condition(r))

\* C2 as claimed: whenever the search call failed, the finished request has
\* answered 201, the record is stored and its recommendations are the
\* five-point template.
C2_Original ==
  \A k \in Slots :
    (SearchFailed(req[k]) /\ req[k].pc = "done") => PersistedWithTemplate(req[k])

\* C2: the same for the requests that carry a language.
C2_SearchFailureTransparent ==
  \A k \in Slots :
    (SearchFailed(req[k]) /\ req[k].pc = "done" /\ Truthy(req[k].language))
    => PersistedWithTemplate(req[k])

C2_Witness ==
  \E k \in Slots :
    /\ SearchFailed(req[k]) /\ req[k].pc = "done" /\ Truthy(req[k].language)
    /\ Truthy(req[k].voiceInput) /\ Truthy(req[k].imageResult)


\* A localizeOutput request that has loaded its diagnosis.
Loaded(r) == r.op = "localizeOutput" /\ r.loaded # NoDoc

\* The languages with registered voices.
VoiceLanguages == {"tw", "ki", "ee"}

\* C3 as claimed: localizeOutput on a stored diagnosis whose language has no
\* registered voice answers 400 and issues neither a synthesis call nor a
\* save, so the loaded record is left as it was.
C3_Original ==
  \A k \in Slots :
    (Loaded(req[k]) /\ LangKey(req[k].loaded.language) \notin VoiceLanguages)
    => /\ Responded(req[k], 400)
       /\ CallsTo(req[k], "tts") = {}
       /\ CallsTo(req[k], "save") = {}
       /\ req[k].doc = req[k].loaded

CallOutcome(r, to) ==
  IF CallsTo(r, to) = {} THEN "none"
  ELSE r.calls[CHOOSE n \in CallsTo(r, to) : TRUE].outcome

CallText(r, to) == r.calls[CHOOSE n \in CallsTo(r, to) : TRUE].text

\* C4: in a localizeOutput request whose translation call failed and whose
\* synthesis call succeeded, the synthesizer was called with the untranslated
\* combinedResult, the document to save carries that text and a data URL;
\* the save step answers 200 and, when no other request wrote the record
\* since it was loaded, leaves exactly these values in the store.
C4_TranslationFailureNonFatal ==
  [][\A k \in Slots :
       (/\ req[k].op = "localizeOutput" /\ req[k].pc = "save"
        /\ CallOutcome(req[k], "translate") = "failed"
        /\ req'[k] # req[k])
       => /\ CallOutcome(req[k], "tts") = "ok"
          /\ CallText(req[k], "tts") = req[k].loaded.combinedResult
          /\ Responded(req'[k], 200)
          /\ req'[k].localizedText = req[k].loaded.combinedResult
          /\ Truthy(req'[k].audioURL)
          /\ Head(req'[k].audioURL.s) = "data:audio/wav;base64,"
          /\ (Stored(req[k].loaded.id) = req[k].loaded
                => /\ FindById(diagnoses', req[k].loaded.id).localizedText
                        = req[k].loaded.combinedResult
                   /\ FindById(diagnoses', req[k].loaded.id).audioURL
                        = req'[k].audioURL)]_vars

C4_Witness ==
  \E k \in Slots :
    /\ req[k].op = "localizeOutput" /\ Responded(req[k], 200)
    /\ CallOutcome(req[k], "translate") = "failed"
    /\ Stored(req[k].loaded.id).localizedText = req[k].loaded.combinedResult
    /\ Truthy(Stored(req[k].loaded.id).audioURL)

\* C5: a localizeOutput request whose synthesis call failed has answered
\* once, with 500, has issued no save, and holds the document as loaded; this
\* also when its translation call had succeeded.
C5_SynthesisFailureFatal ==
  \A k \in Slots :
    (req[k].op = "localizeOutput" /\ CallOutcome(req[k], "tts") = "failed")
    => /\ Responded(req[k], 500)
       /\ CallsTo(req[k], "save") = {}
       /\ req[k].doc = req[k].loaded
       /\ req[k].audioURL = Undefined

C5_Witness ==
  \E k \in Slots :
    /\ req[k].op = "localizeOutput" /\ CallOutcome(req[k], "tts") = "failed"
    /\ CallOutcome(req[k], "translate") = "ok"
    /\ req[k].localizedText # req[k].loaded.combinedResult
    /\ Stored(req[k].loaded.id) = req[k].loaded


\* The fields of a record that are set at creation.
CreationFields == {"id", "voiceInput", "imageResult", "combinedResult", "language", "createdAt"}

\* Slot k completes the save of a localization in this step.
LocalizationSave(k) ==
  \/ req[k].op = "localizeOutput" /\ req[k].pc = "save" /\ req'[k].pc = "done"
  \/ req[k].op = "processAudioAndLocalize" /\ req[k].pc = "save2"
       /\ req'[k].pc = "done"

\* C6: in every step, each stored record stays in the store at its place
\* with its id, voiceInput, imageResult, combinedResult, language and
\* createdAt unchanged; a step that changes a stored record is the save of a
\* localization, for the record that request holds.
C6_CreationFieldsImmutable ==
  [][/\ Len(diagnoses') >= Len(diagnoses)
     /\ \A i \in 1..Len(diagnoses) :
          /\ \A f \in CreationFields : diagnoses'[i][f] = diagnoses[i][f]
          /\ diagnoses'[i] # diagnoses[i]
               => \E k \in Slots : LocalizationSave(k) /\ req[k].doc.id = diagnoses[i].id]_vars

C6_Witness ==
  \E i \in 1..Len(diagnoses) :
    /\ Truthy(diagnoses[i].audioURL)
    /\ Truthy(diagnoses[i].localizedText)
    /\ diagnoses[i].localizedText # diagnoses[i].combinedResult

\* C7 as claimed: every stored record has voiceInput or imageResult non-null.
C7_Original ==
  \A i \in 1..Len(diagnoses) :
    diagnoses[i].voiceInput # Null \/ diagnoses[i].imageResult # Null

\* C8: every stored record has a non-empty combinedResult, and the document a
\* createDiagnosis request saves has as combinedResult its narrative, a blank
\* line, then the recommendations generated from its search results.
C8_CombinedResultNonEmpty ==
  /\ \A i \in 1..Len(diagnoses) :
       /\ diagnoses[i].combinedResult.t = "string"
       /\ diagnoses[i].combinedResult.s # <<>>
  /\ \A k \in Slots :
       (req[k].op = "createDiagnosis" /\ Responded(req[k], 201))
       => /\ Stored(req[k].doc.id) # NoDoc
          /\ Stored(req[k].doc.id).combinedResult.s
               = req[k].combinedResult \o <<"\n\n">>
                   \o generateTreatmentRecommendations(req[k].searchResults,
                        Str(Condition(req[k])))

C8_Witness ==
  /\ \E k \in Slots :
       /\ req[k].op = "processAudioAndLocalize" /\ Responded(req[k], 500)
       /\ req[k].transcribedText = Str(<<>>)
  /\ \E k \in Slots : req[k].op = "createDiagnosis" /\ Responded(req[k], 201)

\* C9: a record createDiagnosis stored from a voiceInput and an imageResult
\* that are both present starts with the narrative of the 'both' branch: the
\* voice text after "Symptoms reported: ", then the image text after
\* ". Visual analysis suggests: ", then the blank line.
C9_BothBranch ==
  \A i \in 1..Len(diagnoses) :
    (createdBy[i] = "createDiagnosis"
       /\ Truthy(diagnoses[i].voiceInput) /\ Truthy(diagnoses[i].imageResult))
    => LET both == <<"Symptoms reported: ">> \o diagnoses[i].voiceInput.s
                     \o <<". Visual analysis suggests: ">>
                     \o diagnoses[i].imageResult.s \o <<".", "\n\n">>
           text == diagnoses[i].combinedResult.s
       IN Len(text) > Len(both) /\ SubSeq(text, 1, Len(both)) = both

C9_Witness ==
  \E i \in 1..Len(diagnoses) :
    /\ createdBy[i] = "createDiagnosis"
    /\ diagnoses[i].voiceInput = Str(<<"leaves turning yellow">>)
    /\ diagnoses[i].imageResult = Str(<<"maize rust">>)

\* The sentences of the source that say symptoms are still awaited
\* (src/routes/output.js:331).
SymptomsPendingNotes == {". Awaiting verbal symptoms."}

\* C10 as claimed: a record createDiagnosis stored from an imageResult alone
\* starts with the visual analysis followed by a note that symptoms are
\* pending.
C10_Original ==
  \A i \in 1..Len(diagnoses) :
    (createdBy[i] = "createDiagnosis"
       /\ ~Truthy(diagnoses[i].voiceInput) /\ Truthy(diagnoses[i].imageResult))
    => LET visual == <<"Visual analysis suggests: ">> \o diagnoses[i].imageResult.s
           text == diagnoses[i].combinedResult.s
       IN /\ Len(text) > Len(visual) /\ SubSeq(text, 1, Len(visual)) = visual
          /\ text[Len(visual) + 1] \in SymptomsPendingNotes

\* C11: a createDiagnosis request that carries a voiceInput v, no imageResult
\* and a language answers 201 once its save has settled, and the record it
\* stored has a combinedResult that starts with "Symptoms reported: ", v,
\* ". Awaiting image input": the symptoms, then the note that the image is
\* pending.
C11_VoiceOnly ==
  \A k \in Slots :
    (/\ req[k].op = "createDiagnosis" /\ req[k].pc = "done"
     /\ Truthy(req[k].voiceInput) /\ ~Truthy(req[k].imageResult)
     /\ Truthy(req[k].language))
    => /\ Responded(req[k], 201)
       /\ Stored(req[k].doc.id) # NoDoc
       /\ LET text == Stored(req[k].doc.id).combinedResult.s
              start == <<"Symptoms reported: ">> \o req[k].voiceInput.s
                         \o <<". Awaiting image input">>
          IN Len(text) > Len(start) /\ SubSeq(text, 1, Len(start)) = start

C11_Witness ==
  \E k \in Slots :
    /\ req[k].op = "createDiagnosis" /\ Responded(req[k], 201)
    /\ req[k].voiceInput = Str(<<"leaves turning yellow">>)
    /\ req[k].imageResult = Undefined
    /\ req[k].language = Str(<<"tw">>)
    /\ Stored(req[k].doc.id).voiceInput = req[k].voiceInput

\* The speaker a request handed to the synthesizer.
CallSpeaker(r) == r.calls[CHOOSE n \in CallsTo(r, "tts") : TRUE].speaker

\* C12: a localizeOutput request that has called the synthesizer for a
\* diagnosis whose language has a voice list called it with the speakerId of
\* the request when it carries one, and otherwise with the first entry of
\* the voice list of the diagnosis language (twi_speaker_4 for "tw"), whatever
\* calls came before; a 200 response reports that same voice.
C12_VoiceSelection ==
  \A k \in Slots :
    (/\ req[k].op = "localizeOutput" /\ CallsTo(req[k], "tts") # {}
     /\ LangKey(req[k].loaded.language) \in VoiceLanguages)
    => LET voices == SPEAKER_MAPPING[LangKey(req[k].loaded.language)]
           expected == IF Truthy(req[k].speakerId) THEN req[k].speakerId
                       ELSE Str(<<Head(voices)>>)
       IN /\ CallSpeaker(req[k]) = expected
          /\ (LangKey(req[k].loaded.language) = "tw" /\ ~Truthy(req[k].speakerId))
               => CallSpeaker(req[k]) = Str(<<"twi_speaker_4">>)
          /\ Responded(req[k], 200) => req[k].res[1].speakerId = expected

C12_Witness ==
  /\ \A k \in Slots :
       /\ req[k].op = "localizeOutput" /\ Responded(req[k], 200)
       /\ req[k].diagnosisId = Oid(1) /\ req[k].speakerId = Undefined
       /\ req[k].res[1].speakerId = Str(<<"twi_speaker_4">>)
  /\ \E k \in Slots : Truthy(req[k].loaded.audioURL)

\* C13 as claimed: a localizeOutput request without a diagnosisId has answered
\* 400 and issued no call at all (no store read); one whose diagnosisId
\* matches no stored record has, once findById has settled, answered 404 and
\* issued no translation call, no synthesis call and no save.
C13_Original ==
  \A k \in Slots :
    req[k].op = "localizeOutput"
    => /\ ~Truthy(req[k].diagnosisId)
            => Responded(req[k], 400) /\ req[k].calls = <<>>
       /\ (/\ Truthy(req[k].diagnosisId)
           /\ Stored(req[k].diagnosisId) = NoDoc
           /\ req[k].pc # "findById")
            => /\ Responded(req[k], 404)
               /\ CallsTo(req[k], "translate") = {}
               /\ CallsTo(req[k], "tts") = {}
               /\ CallsTo(req[k], "save") = {}

\* Slot k completes the save of a localizeOutput request in this step.
LocalizeOutputSaves(k) ==
  req[k].op = "localizeOutput" /\ req[k].pc = "save" /\ req'[k].pc = "done"

\* C14: when a localizeOutput request completes its save on a record that
\* nobody wrote since the request loaded it (as in any sequence of calls that
\* do not overlap), it answers 200 and the stored localizedText and audioURL
\* are from then on exactly the two values of that response, the audioURL a
\* base64 data URI; whatever an earlier call had stored is gone.
C14_LastWriteWins ==
  [][\A k \in Slots :
       (LocalizeOutputSaves(k) /\ Stored(req[k].loaded.id) = req[k].loaded)
       => LET after == FindById(diagnoses', req[k].loaded.id) IN
          /\ Responded(req'[k], 200)
          /\ after.localizedText = req'[k].res[1].localizedText
          /\ after.audioURL = req'[k].res[1].audioURL
          /\ Truthy(after.audioURL)
          /\ Head(after.audioURL.s) = "data:audio/wav;base64,"
          /\ \A f \in CreationFields : after[f] = req[k].loaded[f]]_vars

C14_Witness ==
  \E k \in Slots, j \in Slots :
    /\ k # j
    /\ req[k].op = "localizeOutput" /\ Responded(req[k], 200)
    /\ req[j].op = "localizeOutput" /\ Responded(req[j], 200)
    /\ req[k].diagnosisId = req[j].diagnosisId
    /\ req[j].loaded.audioURL = req[k].res[1].audioURL
    /\ req[j].loaded.localizedText = req[k].res[1].localizedText
    /\ req[j].res[1].audioURL # req[k].res[1].audioURL
    /\ req[j].res[1].localizedText # req[k].res[1].localizedText
    /\ Stored(req[j].diagnosisId).audioURL = req[j].res[1].audioURL
    /\ Stored(req[j].diagnosisId).localizedText = req[j].res[1].localizedText

\* The record had never been localized when request r loaded it.
LoadedFresh(r) == r.loaded.localizedText = Null /\ r.loaded.audioURL = Null

\* C15: localizeOutput calls on one record are not coordinated.  A request
\* loads whatever the store holds, whoever else holds the record; and when a
\* request that loaded the record before any localization of it was saved
\* completes its save, it answers 200 and the store holds its localizedText
\* and audioURL, also when another call has saved its own in between: the
\* stored values are those of whichever call saved last.
C15_Uncoordinated ==
  [][\A k \in Slots :
       /\ (req[k].op = "localizeOutput" /\ req[k].pc = "findById"
             /\ req'[k].pc # "findById" /\ IsObjectId(req[k].diagnosisId))
            => req'[k].loaded = Stored(req[k].diagnosisId)
       /\ (LocalizeOutputSaves(k) /\ LoadedFresh(req[k]))
            => LET after == FindById(diagnoses', req[k].loaded.id) IN
               /\ Responded(req'[k], 200)
               /\ after.localizedText = req'[k].res[1].localizedText
               /\ after.audioURL = req'[k].res[1].audioURL]_vars

\* Both calls loaded the record before either saved, both answered 200, and
\* the store holds the values of one of them and not those the other reported.
C15_Witness ==
  \E k \in Slots, j \in Slots :
    /\ k # j
    /\ req[k].op = "localizeOutput" /\ Responded(req[k], 200)
    /\ req[j].op = "localizeOutput" /\ Responded(req[j], 200)
    /\ req[k].diagnosisId = req[j].diagnosisId
    /\ LoadedFresh(req[k]) /\ LoadedFresh(req[j])
    /\ Stored(req[j].diagnosisId).localizedText = req[j].res[1].localizedText
    /\ Stored(req[j].diagnosisId).audioURL = req[j].res[1].audioURL
    /\ Stored(req[j].diagnosisId).localizedText # req[k].res[1].localizedText
    /\ Stored(req[j].diagnosisId).audioURL # req[k].res[1].audioURL

\* The search call of request r ended without usable results: it threw, was
\* rejected, or its body was malformed, item-less or had no items.
SearchGaveNothing(r) ==
  /\ r.op = "createDiagnosis" /\ r.searchResponse.kind # "none"
  /\ ~(r.searchResponse.kind = "ok" /\ r.searchResponse.hasItems
         /\ Len(r.searchResponse.items) > 0)

\* C16: whatever way the search call of a createDiagnosis request fails
\* (network error, non-2xx response, malformed or item-less body),
\* searchTreatmentInfo hands its caller the empty sequence and no error: the
\* caller goes on to construct and save the document, and a request with a
\* language ends with 201, never with the 500 of the caller's catch.
C16_SearchNeverPropagates ==
  \A k \in Slots :
    SearchGaveNothing(req[k])
    => /\ req[k].searchResults = <<>>
       /\ req[k].doc # NoDoc
       /\ CallsTo(req[k], "save") # {}
       /\ (req[k].pc = "done" /\ Truthy(req[k].language)) => Responded(req[k], 201)

C16_Witness ==
  \E k \in Slots, j \in Slots :
    /\ Responded(req[k], 201) /\ req[k].searchResponse.kind = "rejected"
    /\ Responded(req[j], 201) /\ req[j].searchResponse.kind = "malformed"
    /\ Len(diagnoses) = 2

\* The number of results the search call asks for
\* (src/okuani-adamfo-api-main/models/diagnosis.js:345).
NumRequested == 5

\* The number of itemized recommendations in a text: one title line each.
ItemCount(text) == Cardinality({i \in 1..Len(text) : text[i] = "**\n"})

\* C17 as claimed: searchTreatmentInfo returns at most 5 results for every
\* response, so no request holds more than 5, reports a searchResultsCount
\* above 5, or stores more than 5 itemized recommendations.
C17_Original ==
  \A k \in Slots :
    req[k].op = "createDiagnosis"
    => /\ Len(req[k].searchResults) <= NumRequested
       /\ Responded(req[k], 201)
            => /\ req[k].res[1].searchResultsCount <= NumRequested
               /\ ItemCount(Stored(req[k].doc.id).combinedResult.s) <= NumRequested

\* The numbered list of the first n of `items`: per item its number and
\* title, its snippet, its link.
RECURSIVE NumberedList(_, _)
NumberedList(items, n) ==
  IF n = 0 THEN <<>>
  ELSE NumberedList(items, n - 1)
         \o <<"**", ToString(n), ". ", items[n].title, "**\n",
              items[n].snippet, "\n", "Source: ", items[n].link, "\n\n">>

\* The fixed closing block of four bullets.
FourBullets ==
  <<"\n**Additional Recommendations:**\n",
    "(U+2022) Consult local agricultural extension services\n",
    "(U+2022) Consider integrated pest management approaches\n",
    "(U+2022) Monitor weather conditions that may worsen the condition\n",
    "(U+2022) Keep records of treatments applied for future reference">>

\* C18: when the search of a createDiagnosis request returned n >= 1 items,
\* the recommendations of the stored record are the heading, then exactly
\* those n items numbered 1..n in the order received, each with its title,
\* snippet and link, then the four-bullet closing block; and the 201
\* response reports searchResultsCount = n.
C18_ItemizedInOrder ==
  \A k \in Slots :
    (/\ req[k].op = "createDiagnosis" /\ Responded(req[k], 201)
     /\ req[k].searchResponse.kind = "ok"
     /\ Len(req[k].searchResponse.items) >= 1)
    => LET items == req[k].searchResponse.items
           n == Len(items)
       IN /\ AfterBlankLine(Stored(req[k].doc.id).combinedResult.s)
               = <<"**Treatment Recommendations for ">> \o Condition(req[k])
                   \o <<":**\n\n">> \o NumberedList(items, n) \o FourBullets
          /\ ItemCount(Stored(req[k].doc.id).combinedResult.s) = n
          /\ req[k].res[1].searchResultsCount = n

C18_Witness ==
  \E k \in Slots, j \in Slots :
    /\ Responded(req[k], 201) /\ req[k].searchResponse = SearchOk(Ascending(3))
    /\ Responded(req[j], 201) /\ req[j].searchResponse = SearchOk(Descending(3))
    /\ Stored(req[k].doc.id).combinedResult # Stored(req[j].doc.id).combinedResult

VoiceUploads == {"handleVoiceUpload", "handleVoiceUpload (client)"}

\* The mandatory upstream call of request r failed.
MandatoryCallFailed(r) ==
  \/ r.op \in VoiceUploads \cup {"handleImageUpload"}
       /\ r.upstream.kind \notin {"none", "ok"}
  \/ r.op = "localizeOutput" /\ CallOutcome(r, "tts") = "failed"

\* C19 as claimed: a request of handleVoiceUpload, handleImageUpload or
\* localizeOutput whose mandatory upstream call failed (timeout, unreachable,
\* non-2xx answer, bad credential) has answered 500.
C19_Original ==
  \A k \in Slots : MandatoryCallFailed(req[k]) => Responded(req[k], 500)

\* A text is blank: absent, empty or whitespace only.
Blank(v) == ~Truthy(v) \/ Trim(v.s) = <<>>

\* The upstream answered, and what it gave as transcript is empty or
\* whitespace only.
BlankTranscript(r) ==
  /\ r.upstream.kind = "ok"
  /\ LET d == r.upstream.data IN
     IF d.type = "string" THEN Blank(d.value)
     ELSE /\ \E f \in {"transcription", "transcribedText", "text", "result"} :
               d[f].t = "string"
          /\ \A f \in {"transcription", "transcribedText", "text", "result"} :
               Blank(d[f])

\* What the handlers answer to a transport error.
TransportErrorTexts ==
  {VoiceCatchText(o) : o \in {u \in VoiceOutcomes : u.kind # "ok"}}
  \cup {ClientCatchText(o) : o \in {u \in ClientOutcomes : u.kind # "ok"}}

\* C20 as claimed: every 200 of handleVoiceUpload carries a transcription
\* that is not blank, and an empty or whitespace-only upstream transcript is
\* answered with a failure that is none of the transport-error answers.
C20_Original ==
  \A k \in Slots :
    (req[k].op \in VoiceUploads /\ req[k].pc = "done")
    => /\ Responded(req[k], 200) => ~Blank(req[k].res[1].transcription)
       /\ BlankTranscript(req[k])
            => /\ ~Responded(req[k], 200)
               /\ req[k].res[1].text \notin TransportErrorTexts

\* ------------------------------------------------------------------- C21
\* Requests of handleVoiceUpload (models/diagnosis.js) that carry an audio
\* file and name a language outside the supported set.
UnsupportedVoiceUploads ==
  {k \in Slots : /\ req[k].op = "handleVoiceUpload"
                 /\ req[k].file = "audio"
                 /\ LangKey(req[k].language) \notin ASR_SUPPORTED_LANGUAGES}

\* C21 (as stated): a handleVoiceUpload request whose language code is
\* outside the supported set makes no outbound transcription call and is
\* answered 400 'Unsupported language' with the supported set in the body.
C21_Original ==
  \A k \in UnsupportedVoiceUploads :
    /\ CallsTo(req[k], "asr") = {}
    /\ req[k].pc = "done"
    /\ req[k].res = <<[status |-> 400, text |-> "Unsupported language",
                       supportedLanguages |-> ASR_SUPPORTED_LANGUAGES]>>

\* ------------------------------------------------------------------- C22
\* Pairs of createDiagnosis requests, both answered 201, that agree on
\* voiceInput, imageResult and language and got the same search results.
AgreeingCreations ==
  {p \in Slots \X Slots :
     /\ p[1] # p[2]
     /\ \A n \in 1..2 : /\ req[p[n]].op = "createDiagnosis"
                        /\ Responded(req[p[n]], 201)
     /\ req[p[1]].voiceInput = req[p[2]].voiceInput
     /\ req[p[1]].imageResult = req[p[2]].imageResult
     /\ req[p[1]].language = req[p[2]].language
     /\ req[p[1]].searchResults = req[p[2]].searchResults}

\* C22: two createDiagnosis requests that agree on voiceInput, imageResult
\* and language and receive the same search results store the same
\* combinedResult, whatever combinedResult the clients put in the body.
C22_CombinedResultServerDerived ==
  \A p \in AgreeingCreations :
    Stored(req[p[1]].doc.id).combinedResult
      = Stored(req[p[2]].doc.id).combinedResult

\* Two such requests have been answered, one whose body carried a
\* combinedResult of the client's and one whose body carried none.
C22_Witness ==
  \E p \in AgreeingCreations :
    /\ Truthy(req[p[1]].bodyCombinedResult)
    /\ req[p[2]].bodyCombinedResult = Undefined
    /\ Stored(req[p[1]].doc.id) # NoDoc
    /\ Stored(req[p[2]].doc.id) # NoDoc
    /\ Stored(req[p[1]].doc.id).id # Stored(req[p[2]].doc.id).id

\* ------------------------------------------------------------------- C23
\* C23 (as stated): getAvailableSpeakers answers 404 with the list of the
\* supported languages for a language that has no registered voices, and
\* otherwise 200 with the voice list of the language and, as defaultSpeaker,
\* its first entry, the voice localizeOutput selects for that language when
\* the request carries no speakerId.
C23_Original ==
  \A k \in Slots :
    req[k].op = "getAvailableSpeakers" =>
      IF LangKey(req[k].language) \in VoiceLanguages
        THEN /\ Responded(req[k], 200)
             /\ req[k].res[1].availableSpeakers
                  = SPEAKER_MAPPING[LangKey(req[k].language)]
             /\ req[k].res[1].defaultSpeaker
                  = Str(<<SPEAKER_MAPPING[LangKey(req[k].language)][1]>>)
             /\ req[k].res[1].defaultSpeaker
                  = SelectSpeaker(Undefined, req[k].language)
             /\ \A j \in Slots :
                  (/\ req[j].op = "localizeOutput"
                   /\ CallsTo(req[j], "tts") # {}
                   /\ ~Truthy(req[j].speakerId)
                   /\ req[j].doc.language = req[k].language)
                  => CallSpeaker(req[j]) = req[k].res[1].defaultSpeaker
        ELSE /\ Responded(req[k], 404)
             /\ req[k].res[1].supportedLanguages = VoiceLanguages

\* ------------------------------------------------------------------- C24
\* The destinations of the calls a request has issued, in order.
CallOrder(r) == [n \in 1..Len(r.calls) |-> r.calls[n].to]

IsPrefix(a, b) == Len(a) <= Len(b) /\ a = SubSeq(b, 1, Len(a))

\* The outbound steps of a whole request, per handler.
StepOrders(op) ==
  IF op = "createDiagnosis" THEN {<<"search", "save">>}
  ELSE {<<"findById", "translate", "tts", "save">>, <<"findById", "tts", "save">>}

\* C24: the outbound calls of one createDiagnosis request are search, then
\* save; those of one localizeOutput request are load, at most one
\* translation, one synthesis, save.  Every call but the last issued has
\* returned, so at most one is outstanding; no call is issued twice; the
\* response is sent when nothing is outstanding, and a 201 or 200 response
\* after the whole sequence.
C24_SequentialSteps ==
  \A k \in Slots :
    req[k].op \in {"createDiagnosis", "localizeOutput"} =>
      LET r == req[k] IN
      /\ \E whole \in StepOrders(r.op) : IsPrefix(CallOrder(r), whole)
      /\ \A n \in 1..Len(r.calls) :
           /\ n < Len(r.calls) => r.calls[n].outcome # "pending"
           /\ \A m \in 1..Len(r.calls) : m # n => r.calls[m].to # r.calls[n].to
      /\ r.pc = "done" =>
           /\ Len(r.res) = 1
           /\ \A n \in 1..Len(r.calls) : r.calls[n].outcome # "pending"
      /\ r.pc # "done" =>
           /\ r.res = <<>>
           /\ r.calls # <<>>
           /\ r.calls[Len(r.calls)].outcome = "pending"
      /\ (Responded(r, 201) \/ Responded(r, 200)) =>
           /\ CallOrder(r) \in StepOrders(r.op)
           /\ r.calls[Len(r.calls)].outcome = "ok"

\* A createDiagnosis request has been answered 201 after a failed search and
\* a localizeOutput request 200 after a failed translation.
C24_Witness ==
  \E j, k \in Slots :
    /\ req[j].op = "createDiagnosis" /\ Responded(req[j], 201)
    /\ req[j].calls[1].outcome = "failed"
    /\ req[k].op = "localizeOutput" /\ Responded(req[k], 200)
    /\ CallOrder(req[k]) = <<"findById", "translate", "tts", "save">>
    /\ req[k].calls[2].outcome = "failed"

\* ------------------------------------------------------------------- C25
\* C25 (as stated): a processAudioAndLocalize request that is answered with
\* an error has created no Diagnosis record: the store holds no record
\* constructed by that request.
C25_Original ==
  \A k \in Slots :
    (/\ req[k].op = "processAudioAndLocalize"
     /\ req[k].pc = "done"
     /\ req[k].res[1].status >= 400)
    => \A n \in 1..Len(diagnoses) : diagnoses[n].id # req[k].doc.id

\* ------------------------------------------------------------------- C26
\* The voices registered for a language.
RegisteredVoices(language) ==
  IF LangKey(language) \in VoiceLanguages
    THEN {Str(<<SPEAKER_MAPPING[LangKey(language)][n]>>) :
            n \in 1..Len(SPEAKER_MAPPING[LangKey(language)])}
    ELSE {}

\* C26 (as stated): the speaker_id of every synthesis call of localizeOutput
\* is one of the voices registered for the language of the diagnosis, also
\* when the request carries a speakerId.
C26_Original ==
  \A k \in Slots :
    (req[k].op = "localizeOutput" /\ CallsTo(req[k], "tts") # {})
    => CallSpeaker(req[k]) \in RegisteredVoices(req[k].loaded.language)

\* C26 (amended): the speaker_id of every synthesis call of localizeOutput is
\* the speakerId of the request when it carries one, whichever voice that
\* names; when it carries none and the language of the diagnosis is one with
\* registered voices, it is one of the voices registered for that language.
C26_RequestedOrRegistered ==
  \A k \in Slots :
    (req[k].op = "localizeOutput" /\ CallsTo(req[k], "tts") # {})
    => IF Truthy(req[k].speakerId)
         THEN CallSpeaker(req[k]) = req[k].speakerId
         ELSE LangKey(req[k].loaded.language) \in VoiceLanguages
                => CallSpeaker(req[k]) \in RegisteredVoices(req[k].loaded.language)

\* One request has sent the synthesizer the voice of another language that
\* its caller named, another, without speakerId, a registered voice.
C26_Witness ==
  \E j, k \in Slots :
    /\ req[j].op = "localizeOutput" /\ CallsTo(req[j], "tts") # {}
    /\ Truthy(req[j].speakerId)
    /\ CallSpeaker(req[j]) \notin RegisteredVoices(req[j].loaded.language)
    /\ req[k].op = "localizeOutput" /\ CallsTo(req[k], "tts") # {}
    /\ ~Truthy(req[k].speakerId)
    /\ CallSpeaker(req[k]) \in RegisteredVoices(req[k].loaded.language)

\* ------------------------------------------------------------------- C27
\* The localizedText and audioURL of a document.
LocalizedPair(doc) == <<doc.localizedText, doc.audioURL>>

\* C27 (as stated): the stored localizedText and audioURL of a record always
\* come from one call: a save of localizeOutput leaves the record with the
\* localizedText and the audioURL of the saving call, or leaves both as they
\* were; it never puts the value of one call beside the value of another.
C27_Original ==
  [][\A k \in Slots :
       LocalizeOutputSaves(k)
       => LET before == FindById(diagnoses, req[k].loaded.id)
              after == FindById(diagnoses', req[k].loaded.id)
          IN \/ LocalizedPair(after) = LocalizedPair(req[k].doc)
             \/ LocalizedPair(after) = LocalizedPair(before)]_vars

\* ------------------------------------------------------------------- C29
\* C29 (as stated): when a localizeOutput request completes its save and
\* answers 200, the stored localizedText and audioURL of the record are both
\* texts (neither null nor absent) and the stored localizedText is the text
\* the request sent to the synthesizer, whatever the translator answered.
C29_Original ==
  [][\A k \in Slots :
       (LocalizeOutputSaves(k) /\ Responded(req'[k], 200))
       => LET after == FindById(diagnoses', req[k].loaded.id) IN
          /\ after.localizedText.t = "string"
          /\ after.audioURL.t = "string"
          /\ after.localizedText
               = CallText(req[k], "tts")]_vars

\* ------------------------------------------------------------------- C30
\* C30 (as stated): when a localizeLanguage request carries no speaker_id,
\* the speaker it sends to the synthesizer is one of the voices registered
\* for the language of the request, whatever the random draw.
C30_Original ==
  \A k \in Slots :
    (/\ req[k].op = "localizeLanguage"
     /\ ~Truthy(req[k].speakerId)
     /\ CallsTo(req[k], "tts") # {})
    => CallSpeaker(req[k]) \in RegisteredVoices(req[k].language)

\* ------------------------------------------------------------------- C28
\* C28 (as stated): no two stored users share a username or a phone number,
\* whatever the interleaving of registerUser calls, and a registration with
\* all its fields ends in 201 or, when the username or the phone number is
\* taken, in 400.
C28_Original ==
  /\ \A i, j \in 1..Len(users) :
       i # j => /\ users[i].username # users[j].username
                /\ users[i].phoneNumber # users[j].phoneNumber
  /\ \A k \in Slots :
       (/\ req[k].op = "registerUser" /\ req[k].pc = "done"
        /\ Truthy(req[k].username) /\ Truthy(req[k].phoneNumber))
       => Responded(req[k], 201) \/ Responded(req[k], 400)

====
